---------------------------- MODULE Spec2Model ----------------------------
(***************************************************************************)
(* A model of the live transcription pipeline of whisper_timestamped       *)
(* (src/whisper_timestamped/live.py): the RingBuffer, the hand-off queue   *)
(* between the capture callback and the audio writer thread, and the       *)
(* dedup logic of the transcriber loop.                                    *)
(*                                                                         *)
(* The specifications share the variables:                                 *)
(*   SpecRing   RingBuffer.append / RingBuffer.get_last, one appending and *)
(*              one reading thread, at the granularity of the statements   *)
(*              inside the lock;                                           *)
(*   SpecQueue  _audio_callback and _audio_writer over _audio_q;           *)
(*   SpecDedup  the iterations of _transcriber_loop from the engine's      *)
(*              result to _emit;                                           *)
(*   SpecLifeWriter, SpecLifeLoop                                          *)
(*              start() and stop() with the audio writer threads, and with *)
(*              the transcriber threads, they create;                      *)
(*   SpecWindow one iteration of _transcriber_loop statement by statement  *)
(*              next to the audio writer;                                  *)
(*   SpecCapture                                                           *)
(*              _audio_callback next to the threads inside append and      *)
(*              get_last;                                                  *)
(*   SpecDrift  the same iteration next to the capture callback, the queue *)
(*              and the audio writer, with blocks dropped on a full queue; *)
(*   SpecPace   the pacing of _transcriber_loop against the wall clock.    *)
(* Times are integers counting ticks of 10 ms; samples are integers.       *)
(***************************************************************************)
EXTENDS Integers, Sequences, FiniteSets, TLC

VARIABLES
    \* RingBuffer fields (live.py 61-66)
    buffer, write_pos, size, lock,
    \* the frame of an append call in progress (live.py 68-85)
    app_pc, app_data,
    \* the frame of a get_last call in progress (live.py 87-97)
    get_pc, get_n_samples, get_n, get_start, get_result,
    \* history: the number of samples of all completed appends, and the
    \* totals a get_last in progress may legitimately observe
    total, get_views,
    \* history: the latest append of a block of at least capacity samples:
    \* the number of samples appended once it is complete (0 while there
    \* was none), and the cursor and the size it found
    wholesale,
    \* LiveTranscriber fields shared by the capture callback and the audio
    \* writer thread (live.py 117, 122-123)
    audio_q, wav_file, samples_written,
    \* the audio writer thread: its position and its local `data`
    writer_pc, writer_data,
    \* history: callbacks made so far, how the last one ended, the blocks
    \* put_nowait accepted and the blocks get returned, in order
    produced, cb_outcome, accepted, dequeued,
    \* history: the holder of the ring's lock at the latest call of
    \* _audio_callback
    cb_during,
    \* LiveTranscriber._last_emitted_time (live.py 127) and the lines of the
    \* transcript log at jsonl_path (live.py 146, 182-184)
    last_emitted_time, jsonl,
    \* the latest iteration of _transcriber_loop that ran the engine: its
    \* snapshot of _samples_written, its window_start_abs_sec, the segments
    \* the engine returned, its new_emissions, and _last_emitted_time when
    \* it began
    loop_samples_written, window_start_abs_sec, segments, new_emissions,
    last_before,
    \* window_start_abs_sec of the iteration before the latest
    window_before,
    \* history: iterations of the transcriber loop that ran the engine, and
    \* whether the latest one was handed the same result, for the same
    \* window start, as the one before it
    iterations, repeated,
    \* history: the emissions appended to new_emissions by all iterations
    emission_count,
    \* history: the calls of self._emit
    emit_calls,
    \* LiveTranscriber._stop_event (live.py 116)
    stop_event,
    \* the thread that calls start() and stop(): its position inside the
    \* call in progress, how its last completed call ended, and the joins
    \* of the last stop() that timed out
    caller_pc, returned, join_timeouts,
    \* the number of start() calls so far; the threads and the stream a
    \* start() creates are named by the number of the call
    gen,
    \* history: the threads that were alive at a call of stop()
    stopped_gens,
    \* sd.InputStream constructions attempted by the latest start(), and
    \* whether the device was available to it
    device_tries, device_ok,
    \* self._stream (0 while the attribute is not set) and the streams that
    \* are delivering blocks
    stream, streams_active,
    \* the writer threads: position and local `data` of each
    w_pc, w_data,
    \* the sf.SoundFile objects, one per writer thread, and the one
    \* self._wav_file refers to (0 for None)
    wav_handle, wav_ref,
    \* self._transcribe_thread (0 while the attribute is not set)
    loop_ref,
    \* the transcriber threads: position, the snapshot of _samples_written
    \* of the latest iteration that called the engine, and how each engine
    \* call of that iteration ended
    t_pc, t_sw, t_outcomes,
    \* whether the application replaced _emit by its wrapper
    \* (mixins/live_whisper_transcription.py 271-287)
    custom_emit,
    \* history: the latest batch handed to _emit and what failed in it
    batch,
    \* history: iterations of the transcriber threads that called the engine
    life_iterations,
    \* one iteration of _transcriber_loop taken statement by statement: its
    \* position, its snapshot `samples_written`, the audio get_last returned
    \* (the session index of its first sample and its length) and how the
    \* latest iteration ended
    win_pc, win_sw, win_audio, win_outcome,
    \* the wall clock in ticks, and _transcriber_loop's locals next_time and
    \* now with its position in the pacing statements (live.py 201-207)
    clock, next_time, pace_pc, pace_now,
    \* history: the values of now at which the iterations started
    pace_starts

ringVars == <<buffer, write_pos, size, lock, app_pc, app_data,
              get_pc, get_n_samples, get_n, get_start, get_result,
              total, get_views, wholesale>>

queueVars == <<audio_q, wav_file, samples_written, writer_pc, writer_data,
               produced, cb_outcome, cb_during, accepted, dequeued>>

dedupVars == <<last_emitted_time, jsonl, loop_samples_written,
               window_start_abs_sec, segments, new_emissions, last_before,
               window_before, iterations, repeated, emission_count,
               emit_calls>>

lifeVars == <<stop_event, caller_pc, returned, join_timeouts, gen,
              stopped_gens, device_tries, device_ok, stream, streams_active, w_pc, w_data,
              wav_handle, wav_ref, loop_ref, t_pc, t_sw, t_outcomes,
              custom_emit, batch, life_iterations>>

windowVars == <<win_pc, win_sw, win_audio, win_outcome>>

\* the clock of the transcriber loop
paceVars == <<clock, next_time, pace_pc, pace_now, pace_starts>>

vars == <<ringVars, queueVars, dedupVars, lifeVars, windowVars, paceVars>>

---------------------------------------------------------------------------
\* Bounds of the model

\* capacity of the modelled ring buffer, in samples
RingCapacity == 3
\* longest block handed to one append (longer than the capacity)
MaxBlock == 4
\* appends stop once this many samples were appended
MaxTotal == 7
\* largest n_samples asked of get_last (more than the capacity)
MaxRead == 4
\* samples in one block the audio device delivers
BlockFrames == 2
\* the capture callback is invoked at most this many times
MaxProduced == 53
\* segments in one result of the engine
MaxSegs == 2
\* words in one segment of the engine
MaxWords == 2
\* iterations of the transcriber loop
MaxIterations == 2
\* the loop's snapshots of _samples_written reach the window length plus
\* this many steps
MaxAhead == 1
\* the length of a word or of a segment without words, in ticks
WordTicks == 50
\* start() is called at most this many times on the one LiveTranscriber
MaxStarts == 2
\* blocks the audio device delivers while start() and stop() are followed
MaxLifeBlocks == 2
\* engine-calling iterations of the transcriber threads while start() and
\* stop() are followed
MaxLifeIterations == 2

---------------------------------------------------------------------------
\* Helpers

Min(a, b) == IF a <= b THEN a ELSE b

Max(a, b) == IF a >= b THEN a ELSE b

\* the sequence lo, lo+1, ..., hi  (empty when hi < lo)
Range(lo, hi) == [i \in 1..(hi - lo + 1) |-> lo + i - 1]

\* buf[a:b] of a numpy array held as a function on 0..capacity-1
Slice(buf, a, b) == [j \in 1..(b - a) |-> buf[a + j - 1]]

\* buf[a:a+len(data)] = data
SetSlice(buf, a, data) ==
    [i \in DOMAIN buf |->
        IF a <= i /\ i < a + Len(data) THEN data[i - a + 1] ELSE buf[i]]

---------------------------------------------------------------------------
\* RingBuffer (live.py 60-97)

\* the buffer after the writes of append(data) at write cursor wp
AppendBuffer_KeepHead(buf, wp, data) ==
    LET n == Len(data)
        end == wp + n
        split == RingCapacity - wp
    IN  IF n >= RingCapacity
        THEN SetSlice(buf, 0, SubSeq(data, 1, RingCapacity))
        ELSE IF end <= RingCapacity
        THEN SetSlice(buf, wp, data)
        ELSE SetSlice(SetSlice(buf, wp, SubSeq(data, 1, split)),
                      0, SubSeq(data, split + 1, n))

AppendBuffer(buf, wp, data) ==
    LET n == Len(data)
        end == wp + n
        split == RingCapacity - wp
    IN  IF n >= RingCapacity
        THEN SetSlice(buf, 0, SubSeq(data, n - RingCapacity + 1, n))
        ELSE IF end <= RingCapacity
        THEN SetSlice(buf, wp, data)
        ELSE SetSlice(SetSlice(buf, wp, SubSeq(data, 1, split)),
                      0, SubSeq(data, split + 1, n))

\* the write cursor after append of n samples
AppendWritePos_KeepCursor(wp, n) == (wp + n) % RingCapacity

AppendWritePos(wp, n) ==
    IF n >= RingCapacity THEN 0 ELSE (wp + n) % RingCapacity

\* the size after append of n samples
AppendSize(sz, n) ==
    IF n >= RingCapacity THEN RingCapacity ELSE Min(RingCapacity, sz + n)

\* history of `if n >= self.capacity` (live.py 71-76): the block replaces
\* the buffer; tot samples were appended before it
AppendWholesale(w, wp, sz, tot, data) ==
    IF Len(data) >= RingCapacity
    THEN [at |-> tot + Len(data), wp |-> wp, sz |-> sz]
    ELSE w

\* n = min(n_samples, self.size)
GetN_Capacity(n_samples, sz) == Min(n_samples, RingCapacity)

GetN(n_samples, sz) == Min(n_samples, sz)

\* start = (self.write_pos - n) % self.capacity
GetStart_NoWrap(wp, n) == Max(0, wp - n)

GetStart(wp, n) == (wp - n) % RingCapacity

\* the copy get_last returns, from start, of n samples
GetCopy(buf, start, n) ==
    IF n = 0
    THEN <<>>
    ELSE IF start + n <= RingCapacity
    THEN Slice(buf, start, start + n)
    ELSE LET split == RingCapacity - start
         IN  Slice(buf, start, RingCapacity) \o Slice(buf, 0, n - split)

\* the array get_last returned, after the buffer was written to: get_last
\* returned `.copy()` of the slice or of the concatenation, which shares no
\* memory with self.buffer (live.py 94-97)
ReturnedAfterWrite_View(result, buf, start, n) == GetCopy(buf, start, n)

ReturnedAfterWrite(result, buf, start, n) == result

\* get_last(n_samples) run alone on the fields as they are
GetLast(n_samples) ==
    LET n == GetN(n_samples, size)
    IN  GetCopy(buffer, GetStart(write_pos, n), n)

\* `with self.lock:` is entered only while no thread holds the lock
LockFree_Ignored == TRUE

LockFree == lock = "free"

InitRing ==
    /\ buffer = [i \in 0..(RingCapacity - 1) |-> 0]
    /\ write_pos = 0
    /\ size = 0
    /\ lock = "free"
    /\ app_pc = "idle"
    /\ app_data = <<>>
    /\ get_pc = "idle"
    /\ get_n_samples = 0
    /\ get_n = 0
    /\ get_start = 0
    /\ get_result = <<>>
    /\ total = 0
    /\ get_views = {}
    /\ wholesale = [at |-> 0, wp |-> 0, sz |-> 0]

InitQueue ==
    /\ audio_q = <<>>
    /\ wav_file = <<>>
    /\ samples_written = 0
    /\ writer_pc = "get"
    /\ writer_data = <<>>
    /\ produced = 0
    /\ cb_outcome = "none"
    /\ cb_during = "free"
    /\ accepted = <<>>
    /\ dequeued = <<>>

InitDedup ==
    /\ last_emitted_time = 0
    /\ jsonl = <<>>
    /\ loop_samples_written = 0
    /\ window_start_abs_sec = 0
    /\ segments = <<>>
    /\ new_emissions = <<>>
    /\ last_before = 0
    /\ window_before = 0
    /\ iterations = 0
    /\ repeated = FALSE
    /\ emission_count = 0
    /\ emit_calls = 0

\* _transcriber_loop before its first iteration
\* _transcriber_loop arrives at its loop: next_time = time.time()
\* (live.py 201)
InitPace ==
    /\ clock = 0
    /\ next_time = 0
    /\ pace_pc = "check"
    /\ pace_now = 0
    /\ pace_starts = <<>>

InitWindow ==
    /\ win_pc = "pace"
    /\ win_sw = 0
    /\ win_audio = [first |-> 0, len |-> 0]
    /\ win_outcome = "none"

\* the threads and streams start() may create
Gens == 1..MaxStarts

\* LiveTranscriber.__init__: no stop requested, no thread, no stream, no
\* sound file (live.py 116, 122); _emit is the method of the class
InitLife ==
    /\ stop_event = FALSE
    /\ caller_pc = "idle"
    /\ returned = "none"
    /\ join_timeouts = {}
    /\ gen = 0
    /\ stopped_gens = {}
    /\ device_tries = 0
    /\ device_ok = TRUE
    /\ stream = 0
    /\ streams_active = {}
    /\ w_pc = [g \in Gens |-> "unstarted"]
    /\ w_data = [g \in Gens |-> <<>>]
    /\ wav_handle = [g \in Gens |-> "none"]
    /\ wav_ref = 0
    /\ loop_ref = 0
    /\ t_pc = [g \in Gens |-> "unstarted"]
    /\ t_sw = [g \in Gens |-> 0]
    /\ t_outcomes = [g \in Gens |-> <<>>]
    /\ custom_emit = FALSE
    /\ batch = [emissions |-> <<>>, publish_failed |-> FALSE,
                log_failed |-> FALSE]
    /\ life_iterations = 0

\* append(data) is called; sample number i of the session has value i
AppendCall(n) ==
    /\ app_pc = "idle"
    /\ total + n <= MaxTotal
    /\ app_pc' = "lock"
    /\ app_data' = Range(total + 1, total + n)
    /\ UNCHANGED <<buffer, write_pos, size, lock, get_pc, get_n_samples,
                   get_n, get_start, get_result, total, get_views>>
    /\ UNCHANGED wholesale
    /\ UNCHANGED <<queueVars, dedupVars, lifeVars>>
    /\ UNCHANGED <<windowVars, paceVars>>

\* with self.lock:  (live.py 69)
AppendLock ==
    /\ app_pc = "lock"
    /\ LockFree
    /\ lock' = "append"
    /\ app_pc' = "write"
    /\ get_views' = IF get_pc \in {"idle", "done"}
                    THEN get_views
                    ELSE get_views \cup {total + Len(app_data)}
    /\ UNCHANGED <<buffer, write_pos, size, app_data, get_pc, get_n_samples,
                   get_n, get_start, get_result, total>>
    /\ UNCHANGED wholesale
    /\ UNCHANGED <<queueVars, dedupVars, lifeVars>>
    /\ UNCHANGED <<windowVars, paceVars>>

\* the slice assignments (live.py 73, 79, 82-83)
AppendWrite ==
    /\ app_pc = "write"
    /\ buffer' = AppendBuffer(buffer, write_pos, app_data)
    /\ wholesale' = AppendWholesale(wholesale, write_pos, size, total,
                                    app_data)
    /\ app_pc' = "pos"
    /\ get_result' = IF get_pc = "done"
                     THEN ReturnedAfterWrite(get_result, buffer', get_start,
                                             get_n)
                     ELSE get_result
    /\ UNCHANGED <<write_pos, size, lock, app_data, get_pc, get_n_samples,
                   get_n, get_start, total, get_views>>
    /\ UNCHANGED <<queueVars, dedupVars, lifeVars>>
    /\ UNCHANGED <<windowVars, paceVars>>

\* self.write_pos = ...  (live.py 74, 84)
AppendPos ==
    /\ app_pc = "pos"
    /\ write_pos' = AppendWritePos(write_pos, Len(app_data))
    /\ app_pc' = "size"
    /\ UNCHANGED <<buffer, size, lock, app_data, get_pc, get_n_samples,
                   get_n, get_start, get_result, total, get_views>>
    /\ UNCHANGED wholesale
    /\ UNCHANGED <<queueVars, dedupVars, lifeVars>>
    /\ UNCHANGED <<windowVars, paceVars>>

\* self.size = ... and the lock is released (live.py 75-76, 85)
AppendSizeRelease ==
    /\ app_pc = "size"
    /\ size' = AppendSize(size, Len(app_data))
    /\ lock' = "free"
    /\ app_pc' = "idle"
    /\ total' = total + Len(app_data)
    /\ app_data' = <<>>
    /\ UNCHANGED <<buffer, write_pos, get_pc, get_n_samples,
                   get_n, get_start, get_result, get_views>>
    /\ UNCHANGED wholesale
    /\ UNCHANGED <<queueVars, dedupVars, lifeVars>>
    /\ UNCHANGED <<windowVars, paceVars>>

\* get_last(n_samples) is called
GetCall(k) ==
    /\ get_pc \in {"idle", "done"}
    /\ get_pc' = "lock"
    /\ get_n_samples' = k
    /\ get_result' = <<>>
    /\ get_views' = {total} \cup
                    (IF app_pc \in {"write", "pos", "size"}
                     THEN {total + Len(app_data)} ELSE {})
    /\ UNCHANGED <<buffer, write_pos, size, lock, app_pc, app_data,
                   get_n, get_start, total>>
    /\ UNCHANGED wholesale
    /\ UNCHANGED <<queueVars, dedupVars, lifeVars>>
    /\ UNCHANGED <<windowVars, paceVars>>

\* with self.lock:  (live.py 88)
GetLock ==
    /\ get_pc = "lock"
    /\ LockFree
    /\ lock' = "get"
    /\ get_pc' = "n"
    /\ get_views' = get_views \cup {total}
    /\ UNCHANGED <<buffer, write_pos, size, app_pc, app_data,
                   get_n_samples, get_n, get_start, get_result, total>>
    /\ UNCHANGED wholesale
    /\ UNCHANGED <<queueVars, dedupVars, lifeVars>>
    /\ UNCHANGED <<windowVars, paceVars>>

\* n = min(n_samples, self.size)  (live.py 89)
GetReadSize ==
    /\ get_pc = "n"
    /\ get_n' = GetN(get_n_samples, size)
    /\ get_pc' = "start"
    /\ UNCHANGED <<buffer, write_pos, size, lock, app_pc, app_data,
                   get_n_samples, get_start, get_result, total, get_views>>
    /\ UNCHANGED wholesale
    /\ UNCHANGED <<queueVars, dedupVars, lifeVars>>
    /\ UNCHANGED <<windowVars, paceVars>>

\* start = (self.write_pos - n) % self.capacity  (live.py 92)
GetReadPos ==
    /\ get_pc = "start"
    /\ get_start' = GetStart(write_pos, get_n)
    /\ get_pc' = "copy"
    /\ UNCHANGED <<buffer, write_pos, size, lock, app_pc, app_data,
                   get_n_samples, get_n, get_result, total, get_views>>
    /\ UNCHANGED wholesale
    /\ UNCHANGED <<queueVars, dedupVars, lifeVars>>
    /\ UNCHANGED <<windowVars, paceVars>>

\* the copy is taken and the lock released (live.py 90-97)
GetCopyRelease ==
    /\ get_pc = "copy"
    /\ get_result' = GetCopy(buffer, get_start, get_n)
    /\ lock' = "free"
    /\ get_pc' = "done"
    /\ UNCHANGED <<buffer, write_pos, size, app_pc, app_data,
                   get_n_samples, get_n, get_start, total, get_views>>
    /\ UNCHANGED wholesale
    /\ UNCHANGED <<queueVars, dedupVars, lifeVars>>
    /\ UNCHANGED <<windowVars, paceVars>>

NextRing ==
    \/ \E n \in 0..MaxBlock : AppendCall(n)
    \/ AppendLock
    \/ AppendWrite
    \/ AppendPos
    \/ AppendSizeRelease
    \/ \E k \in 0..MaxRead : GetCall(k)
    \/ GetLock
    \/ GetReadSize
    \/ GetReadPos
    \/ GetCopyRelease

Init ==
    InitRing /\ InitQueue /\ InitDedup /\ InitLife /\ InitWindow /\ InitPace

SpecRing == Init /\ [][NextRing]_vars

---------------------------------------------------------------------------
\* The hand-off queue, the capture callback and the audio writer thread
\* (live.py 117, 149-179)

\* queue.Queue(maxsize=50)
QueueMaxsize == 50

\* block number i delivered by the audio device: its samples are numbered
\* by their place in the device's stream
Block(i) == Range((i - 1) * BlockFrames + 1, i * BlockFrames)

\* Queue.put_nowait(item): raises queue.Full when the queue holds maxsize
\* items, appends the item at the tail otherwise
PutNowait_Unbounded(q, item) == [raised |-> "none", q |-> Append(q, item)]

PutNowait(q, item) ==
    IF Len(q) >= QueueMaxsize
    THEN [raised |-> "Full", q |-> q]
    ELSE [raised |-> "none", q |-> Append(q, item)]

\* Queue.get: the item at the head of a non-empty queue
QueueGet_Newest(q) == [item |-> q[Len(q)], q |-> SubSeq(q, 1, Len(q) - 1)]

QueueGet(q) == [item |-> Head(q), q |-> Tail(q)]

\* how _audio_callback ends when put_nowait did or did not raise:
\* `except queue.Full: pass` (live.py 156-158)
CallbackOutcome(raised) ==
    IF raised = "none" THEN "accepted"
    ELSE IF raised = "Full" THEN "dropped"
    ELSE "raised"

\* self._wav_file.write(data): the samples of the block go to the end of the
\* file (live.py 172-173)
WavWrite_Overwrite(file, data) == data

WavWrite(file, data) == file \o data

\* the locks _audio_callback acquires: none, it takes neither RingBuffer.lock
\* nor _samples_lock and touches no file (live.py 149-158)
CallbackLocks_Ring == {"ring"}

CallbackLocks == {}

\* _audio_callback(indata, ...), called by the audio device's thread
AudioCallback ==
    /\ produced < MaxProduced
    /\ "ring" \in CallbackLocks => LockFree
    /\ LET put == PutNowait(audio_q, Block(produced + 1))
       IN  /\ audio_q' = put.q
           /\ cb_outcome' = CallbackOutcome(put.raised)
           /\ cb_during' = lock
           /\ accepted' = IF put.raised = "none"
                          THEN Append(accepted, Block(produced + 1))
                          ELSE accepted
    /\ produced' = produced + 1
    /\ UNCHANGED <<wav_file, samples_written, writer_pc, writer_data,
                   dequeued>>
    /\ UNCHANGED ringVars
    /\ UNCHANGED <<dedupVars, lifeVars>>
    /\ UNCHANGED <<windowVars, paceVars>>

\* data = self._audio_q.get(timeout=0.1) returns a block (live.py 168)
WriterGet ==
    /\ writer_pc = "get"
    /\ audio_q # <<>>
    /\ LET got == QueueGet(audio_q)
       IN  /\ audio_q' = got.q
           /\ writer_data' = got.item
           /\ dequeued' = Append(dequeued, got.item)
    /\ writer_pc' = "append"
    /\ UNCHANGED <<wav_file, samples_written, produced, cb_outcome, cb_during, accepted>>
    /\ UNCHANGED ringVars
    /\ UNCHANGED <<dedupVars, lifeVars>>
    /\ UNCHANGED <<windowVars, paceVars>>

\* the get times out on the empty queue: queue.Empty, continue
\* (live.py 169-170)
WriterTimeout ==
    /\ writer_pc = "get"
    /\ audio_q = <<>>
    /\ UNCHANGED <<queueVars, dedupVars, lifeVars>>
    /\ UNCHANGED ringVars
    /\ UNCHANGED <<windowVars, paceVars>>

\* self._ring.append(data.astype(np.float32, copy=False))  (live.py 171)
WriterAppend ==
    /\ writer_pc = "append"
    /\ LockFree
    /\ buffer' = AppendBuffer(buffer, write_pos, writer_data)
    /\ write_pos' = AppendWritePos(write_pos, Len(writer_data))
    /\ size' = AppendSize(size, Len(writer_data))
    /\ total' = total + Len(writer_data)
    /\ wholesale' = AppendWholesale(wholesale, write_pos, size, total,
                                    writer_data)
    /\ writer_pc' = "wav"
    /\ UNCHANGED <<lock, app_pc, app_data, get_pc, get_n_samples, get_n,
                   get_start, get_result, get_views>>
    /\ UNCHANGED <<audio_q, wav_file, samples_written, writer_data,
                   produced, cb_outcome, cb_during, accepted, dequeued>>
    /\ UNCHANGED <<dedupVars, lifeVars>>
    /\ UNCHANGED <<windowVars, paceVars>>

\* self._wav_file.write(data)  (live.py 172-173)
WriterWav ==
    /\ writer_pc = "wav"
    /\ wav_file' = WavWrite(wav_file, writer_data)
    /\ writer_pc' = "count"
    /\ UNCHANGED <<audio_q, samples_written, writer_data,
                   produced, cb_outcome, cb_during, accepted, dequeued>>
    /\ UNCHANGED ringVars
    /\ UNCHANGED <<dedupVars, lifeVars>>
    /\ UNCHANGED <<windowVars, paceVars>>

\* self._samples_written += len(data)  (live.py 175-176)
WriterCount ==
    /\ writer_pc = "count"
    /\ samples_written' = samples_written + Len(writer_data)
    /\ writer_pc' = "get"
    /\ writer_data' = <<>>
    /\ UNCHANGED <<audio_q, wav_file, produced, cb_outcome, cb_during, accepted,
                   dequeued>>
    /\ UNCHANGED ringVars
    /\ UNCHANGED <<dedupVars, lifeVars>>
    /\ UNCHANGED <<windowVars, paceVars>>

NextQueue ==
    \/ AudioCallback
    \/ WriterGet
    \/ WriterTimeout
    \/ WriterAppend
    \/ WriterWav
    \/ WriterCount

SpecQueue == Init /\ [][NextQueue]_vars

\* the capture callback next to a thread inside append and a thread inside
\* get_last, each stopping at every statement under the ring's lock
MaxCapture == 2

CaptureCallback ==
    /\ produced < MaxCapture
    /\ AudioCallback

NextCapture == NextRing \/ CaptureCallback

SpecCapture == Init /\ [][NextCapture]_vars

---------------------------------------------------------------------------
\* The transcriber loop and its dedup of overlapping windows
\* (live.py 181-296).  Seconds are counted in ticks of 10 ms.

\* LiveConfig.sample_rate
SampleRate == 16000

\* LiveConfig.chunk_length_s, in seconds
ChunkLengthS == 15

\* LiveConfig.step_s, in seconds
StepS == 2

\* the tolerance 0.02 s of the dedup comparisons, in ticks
Eps == 2

\* self.recording_start_time, in ticks of the wall clock
RecordingStartTime == 1000

SamplesPerTick == SampleRate \div 100

\* window = int(self.cfg.chunk_length_s * sample_rate)
WindowSamples == ChunkLengthS * SampleRate

\* step = max(1, int(self.cfg.step_s * sample_rate))
StepSamples == Max(1, StepS * SampleRate)

StepTicks == StepSamples \div SamplesPerTick

\* len(self._ring.get_last(window)) once sw samples were appended and none
\* is being appended
AudioLen(sw) == Min(WindowSamples, sw)

\* window_start_abs_sec = max(0.0, (samples_written - len(audio)) / sample_rate)
WindowStartAbs_Zero(sw, audio_len) == 0

WindowStartAbs_NoClamp(sw, audio_len) == (sw - audio_len) \div SamplesPerTick

WindowStartAbs(sw, audio_len) == Max(0, (sw - audio_len) \div SamplesPerTick)

\* _relative_to_absolute(rel_sec)
RelativeToAbsolute(rel) == RecordingStartTime + rel

\* the test of live.py 259 and 273, negated: the end time is past the cutoff
IsNewEnd_Inclusive(end_abs, last) == end_abs >= last

IsNewEnd_StartAfter(end_abs, last) == end_abs + WordTicks > last + Eps

IsNewEnd(end_abs, last) == ~(end_abs <= last + Eps)

\* new_words of a segment with words (live.py 256-268)
NewWordsOfWords_RelativeEnd(seg, ws, last) ==
    LET abs == [j \in 1..Len(seg.words) |->
                   [text |-> seg.words[j].word,
                    start |-> ws + seg.words[j].start,
                    end |-> ws + seg.words[j].end]]
        Keep(w) == IsNewEnd(w.end - ws, last)
    IN  SelectSeq(abs, Keep)

NewWordsOfWords(seg, ws, last) ==
    LET abs == [j \in 1..Len(seg.words) |->
                   [text |-> seg.words[j].word,
                    start |-> ws + seg.words[j].start,
                    end |-> ws + seg.words[j].end]]
        Keep(w) == IsNewEnd(w.end, last)
    IN  SelectSeq(abs, Keep)

\* new_words of a segment without words (live.py 250-251, 273-275)
NewWordsOfSegment_Always(seg, ws, last) ==
    <<[text |-> seg.text, start |-> ws + Max(0, seg.start),
       end |-> ws + Max(0, seg.end)]>>

NewWordsOfSegment(seg, ws, last) ==
    LET seg_start == ws + Max(0, seg.start)
        seg_end == ws + Max(0, seg.end)
    IN  IF IsNewEnd(seg_end, last)
        THEN <<[text |-> seg.text, start |-> seg_start, end |-> seg_end]>>
        ELSE <<>>

\* if getattr(seg, "words", None): ... else: ...
NewWords_SegmentOnly(seg, ws, last) == NewWordsOfSegment(seg, ws, last)

NewWords(seg, ws, last) ==
    IF seg.words # <<>>
    THEN NewWordsOfWords(seg, ws, last)
    ELSE NewWordsOfSegment(seg, ws, last)

\* max_new_end after the new words (live.py 254, 269-270, 276)
MaxNewEnd_LastStart(last, new_words) == new_words[Len(new_words)].start

MaxNewEnd_Stale(last, new_words) == last

MaxNewEnd_LastEnd(last, new_words) == new_words[Len(new_words)].end

MaxNewEnd(last, new_words) ==
    LET ends == {last} \cup {new_words[j].end : j \in 1..Len(new_words)}
    IN  CHOOSE m \in ends : \A e \in ends : m >= e

\* the emission built from the new words of one segment (live.py 281-291)
Emission(new_words) ==
    [text |-> [j \in 1..Len(new_words) |-> new_words[j].text],
     start |-> new_words[1].start,
     end |-> new_words[Len(new_words)].end,
     absolute_start |-> RelativeToAbsolute(new_words[1].start),
     absolute_end |-> RelativeToAbsolute(new_words[Len(new_words)].end),
     words |-> new_words]

\* the body of `for seg in segments` from segment i on: out are the
\* emissions so far, last is self._last_emitted_time (live.py 248-293)
RECURSIVE DedupFrom(_, _, _, _, _)
DedupFrom(segs, i, ws, last, out) ==
    IF i > Len(segs)
    THEN [last |-> last, emissions |-> out]
    ELSE LET new_words == NewWords(segs[i], ws, last)
         IN  IF new_words = <<>>
             THEN DedupFrom(segs, i + 1, ws, last, out)
             ELSE DedupFrom(segs, i + 1, ws, MaxNewEnd(last, new_words),
                            Append(out, Emission(new_words)))

DedupSegments(segs, ws, last) == DedupFrom(segs, 1, ws, last, <<>>)

\* if new_emissions: self._emit(new_emissions)  (live.py 295-296)
ShouldEmit_Always(emissions) == TRUE

ShouldEmit(emissions) == emissions # <<>>

\* _emit(segments): one line per emission appended to the log
\* (live.py 182-184)
Emit_Rewrite(log, emissions) == emissions

Emit(log, emissions) == log \o emissions

\* The snapshots of _samples_written the loop takes: before half a window
\* was captured, at one window, and steps after that
Snapshots ==
    {StepSamples} \cup {WindowSamples + i * StepSamples : i \in 0..MaxAhead}

\* End times of words relative to the window: one step into the window,
\* then the tolerance and one tick more after that
RelEnds == {StepTicks, StepTicks + Eps, StepTicks + Eps + 1}

\* three words ending one, two and three steps into the window
ScenarioEnds == <<StepTicks, 2 * StepTicks, 3 * StepTicks>>

EndSeqs == UNION {[1..k -> RelEnds] : k \in 1..MaxWords} \cup {ScenarioEnds}

\* what a segment is made of: the end times of its words, or its own end
\* time when the engine gave it no words
SegShapes ==
    {[ends |-> e, words |-> TRUE] : e \in EndSeqs}
    \cup {[ends |-> <<e>>, words |-> FALSE] : e \in RelEnds}

\* segment i of a result; its text and its words' texts name their place
\* in the result
EngineSegment(shape, i) ==
    [text |-> <<i, 0>>,
     start |-> shape.ends[1] - WordTicks,
     end |-> shape.ends[Len(shape.ends)],
     words |-> IF shape.words
               THEN [j \in 1..Len(shape.ends) |->
                        [word |-> <<i, j>>,
                         start |-> shape.ends[j] - WordTicks,
                         end |-> shape.ends[j]]]
               ELSE <<>>]

\* the results self.model.transcribe may return
EngineResults ==
    {[i \in 1..Len(sh) |-> EngineSegment(sh[i], i)] :
        sh \in UNION {[1..k -> SegShapes] : k \in 0..MaxSegs}}

\* an iteration that finds less than half a window of audio: `continue`
\* (live.py 209-214)
TranscriberSkip(sw) ==
    /\ sw >= loop_samples_written
    /\ AudioLen(sw) < WindowSamples \div 2
    /\ loop_samples_written' = sw
    /\ UNCHANGED <<last_emitted_time, jsonl, window_start_abs_sec, segments,
                   new_emissions, last_before, window_before, iterations,
                   repeated, emission_count, emit_calls>>
    /\ UNCHANGED <<ringVars, queueVars, lifeVars>>
    /\ UNCHANGED <<windowVars, paceVars>>

\* an iteration whose engine call returns segs (live.py 209-296)
TranscriberIteration(sw, segs) ==
    /\ iterations < MaxIterations
    /\ sw >= loop_samples_written
    /\ ~(AudioLen(sw) < WindowSamples \div 2)
    /\ LET ws == WindowStartAbs(sw, AudioLen(sw))
           done == DedupSegments(segs, ws, last_emitted_time)
       IN  /\ window_start_abs_sec' = ws
           /\ new_emissions' = done.emissions
           /\ last_emitted_time' = done.last
           /\ jsonl' = IF ShouldEmit(done.emissions)
                       THEN Emit(jsonl, done.emissions)
                       ELSE jsonl
           /\ emit_calls' = emit_calls +
                             (IF ShouldEmit(done.emissions) THEN 1 ELSE 0)
           /\ repeated' = (iterations >= 1 /\ segs = segments
                           /\ ws = window_start_abs_sec)
           /\ emission_count' = emission_count + Len(done.emissions)
    /\ loop_samples_written' = sw
    /\ segments' = segs
    /\ last_before' = last_emitted_time
    /\ window_before' = window_start_abs_sec
    /\ iterations' = iterations + 1
    /\ UNCHANGED <<ringVars, queueVars, lifeVars>>
    /\ UNCHANGED <<windowVars, paceVars>>

NextDedup ==
    \/ \E sw \in Snapshots : TranscriberSkip(sw)
    \/ \E sw \in Snapshots : \E segs \in EngineResults :
           TranscriberIteration(sw, segs)

SpecDedup == Init /\ [][NextDedup]_vars

---------------------------------------------------------------------------
\* start(), stop() and the two background threads (live.py 160-179,
\* 195-332).  One thread calls start() and stop() on the LiveTranscriber,
\* one call after the other, in any order.

\* LiveConfig.write_audio_wav (with soundfile imported)
WriteAudioWav == TRUE

WriterAlive(g) == w_pc[g] \notin {"unstarted", "exited", "dead"}

LoopAlive(g) == t_pc[g] \notin {"unstarted", "exited", "dead"}

\* where start() goes after sd.InputStream(...) and self._stream.start():
\* on to the inference thread, or out with the exception (live.py 307-319)
StartAfterStream_Swallow(opened) == "start_loop"

StartAfterStream(opened) == IF opened THEN "start_loop" ELSE "raise"

\* Thread.join(timeout=2.0) returns once the thread is not alive or the
\* timeout has expired
JoinReturns_NoTimeout(alive, timed_out) == ~alive

JoinReturns(alive, timed_out) == ~alive \/ timed_out

\* what the test `while not self._stop_event.is_set()` of the audio writer
\* leads to (live.py 166, 178)
WriterAfterCheck(stopped) == IF stopped THEN "close" ELSE "get"

\* where the audio writer is after self._wav_file.write(data) returned or
\* raised: no handler encloses the call (live.py 172-174)
WriterAfterWav(raised) == IF raised THEN "dead" ELSE "count"

\* the application replaces _emit before it calls start()
\* (mixins/live_whisper_transcription.py 268-290)
InstallCustomEmit ==
    /\ caller_pc = "idle"
    /\ gen = 0
    /\ ~custom_emit
    /\ custom_emit' = TRUE
    /\ UNCHANGED <<stop_event, caller_pc, returned, join_timeouts, gen, stopped_gens,
                   device_tries, device_ok, stream, streams_active, w_pc, w_data,
                   wav_handle, wav_ref, loop_ref, t_pc, t_sw, t_outcomes,
                   batch, life_iterations>>
    /\ UNCHANGED <<ringVars, queueVars, dedupVars>>
    /\ UNCHANGED <<windowVars, paceVars>>

\* start(): the stop event is cleared and the writer thread created and
\* started (live.py 303-305)
StartCall ==
    /\ caller_pc = "idle"
    /\ gen < MaxStarts
    /\ stop_event' = FALSE
    /\ gen' = gen + 1
    /\ w_pc' = [w_pc EXCEPT ![gen + 1] = "open"]
    /\ device_tries' = 0
    /\ device_ok' = TRUE
    /\ caller_pc' = "start_stream"
    /\ UNCHANGED <<returned, join_timeouts, stopped_gens, stream,
                   streams_active, w_data,
                   wav_handle, wav_ref, loop_ref, t_pc, t_sw, t_outcomes,
                   custom_emit, batch, life_iterations>>
    /\ UNCHANGED <<ringVars, queueVars, dedupVars>>
    /\ UNCHANGED <<windowVars, paceVars>>

\* start(): the input stream is created and started, or the device is not
\* available and the exception leaves start() (live.py 307-315)
StartStream(opened) ==
    /\ caller_pc = "start_stream"
    /\ device_tries' = device_tries + 1
    /\ device_ok' = opened
    /\ IF StartAfterStream(opened) = "start_loop"
       THEN /\ caller_pc' = "start_loop"
            /\ stream' = IF opened THEN gen ELSE stream
            /\ streams_active' = IF opened THEN streams_active \cup {gen}
                                 ELSE streams_active
            /\ UNCHANGED returned
       ELSE /\ caller_pc' = "idle"
            /\ returned' = "start_raised"
            /\ UNCHANGED <<stream, streams_active>>
    /\ UNCHANGED <<stop_event, join_timeouts, gen, stopped_gens, w_pc, w_data,
                   wav_handle, wav_ref, loop_ref, t_pc, t_sw, t_outcomes,
                   custom_emit, batch, life_iterations>>
    /\ UNCHANGED <<ringVars, queueVars, dedupVars>>
    /\ UNCHANGED <<windowVars, paceVars>>

\* start(): the inference thread is created and started (live.py 318-319)
StartLoop ==
    /\ caller_pc = "start_loop"
    /\ t_pc' = [t_pc EXCEPT ![gen] = "check"]
    /\ loop_ref' = gen
    /\ caller_pc' = "idle"
    /\ returned' = "start"
    /\ UNCHANGED <<stop_event, join_timeouts, gen, stopped_gens, device_tries, device_ok, stream,
                   streams_active, w_pc, w_data, wav_handle, wav_ref,
                   t_sw, t_outcomes, custom_emit, batch, life_iterations>>
    /\ UNCHANGED <<ringVars, queueVars, dedupVars>>
    /\ UNCHANGED <<windowVars, paceVars>>

\* stop(): self._stop_event.set()  (live.py 322)
StopCall ==
    /\ caller_pc = "idle"
    /\ stop_event' = TRUE
    /\ join_timeouts' = {}
    /\ stopped_gens' = stopped_gens \cup
                       {g \in Gens : WriterAlive(g) \/ LoopAlive(g)}
    /\ caller_pc' = "stop_stream"
    /\ UNCHANGED <<returned, gen, device_tries, device_ok, stream, streams_active,
                   w_pc, w_data, wav_handle, wav_ref, loop_ref, t_pc, t_sw,
                   t_outcomes, custom_emit, batch, life_iterations>>
    /\ UNCHANGED <<ringVars, queueVars, dedupVars>>
    /\ UNCHANGED <<windowVars, paceVars>>

\* stop(): the stream, if there is one, is stopped and closed; what that
\* raises is swallowed (live.py 323-328)
StopStream ==
    /\ caller_pc = "stop_stream"
    /\ streams_active' = streams_active \ {stream}
    /\ caller_pc' = "join_loop"
    /\ UNCHANGED <<stop_event, returned, join_timeouts, gen, stopped_gens, device_tries, device_ok,
                   stream, w_pc, w_data, wav_handle, wav_ref, loop_ref, t_pc,
                   t_sw, t_outcomes, custom_emit, batch, life_iterations>>
    /\ UNCHANGED <<ringVars, queueVars, dedupVars>>
    /\ UNCHANGED <<windowVars, paceVars>>

\* stop(): self._transcribe_thread.join(timeout=2.0) if the attribute is
\* there (live.py 329-330)
StopJoinLoop(timed_out) ==
    /\ caller_pc = "join_loop"
    /\ LET alive == loop_ref # 0 /\ LoopAlive(loop_ref)
       IN  /\ JoinReturns(alive, timed_out)
           /\ join_timeouts' = IF alive THEN join_timeouts \cup {"loop"}
                               ELSE join_timeouts
    /\ caller_pc' = "join_writer"
    /\ UNCHANGED <<stop_event, returned, gen, stopped_gens, device_tries, device_ok, stream,
                   streams_active, w_pc, w_data, wav_handle, wav_ref,
                   loop_ref, t_pc, t_sw, t_outcomes, custom_emit, batch,
                   life_iterations>>
    /\ UNCHANGED <<ringVars, queueVars, dedupVars>>
    /\ UNCHANGED <<windowVars, paceVars>>

\* stop(): self._writer_thread.join(timeout=2.0) if the attribute is there,
\* and stop() returns (live.py 331-332)
StopJoinWriter(timed_out) ==
    /\ caller_pc = "join_writer"
    /\ LET alive == gen # 0 /\ WriterAlive(gen)
       IN  /\ JoinReturns(alive, timed_out)
           /\ join_timeouts' = IF alive THEN join_timeouts \cup {"writer"}
                               ELSE join_timeouts
    /\ caller_pc' = "idle"
    /\ returned' = "stop"
    /\ UNCHANGED <<stop_event, gen, stopped_gens, device_tries, device_ok, stream, streams_active,
                   w_pc, w_data, wav_handle, wav_ref, loop_ref, t_pc, t_sw,
                   t_outcomes, custom_emit, batch, life_iterations>>
    /\ UNCHANGED <<ringVars, queueVars, dedupVars>>
    /\ UNCHANGED <<windowVars, paceVars>>

\* the audio device calls _audio_callback while a stream is active
LifeCallback ==
    /\ streams_active # {}
    /\ produced < MaxLifeBlocks
    /\ AudioCallback

\* _audio_writer: the sound file is opened for writing (live.py 161-165)
LifeWriterOpen(g) ==
    /\ w_pc[g] = "open"
    /\ IF WriteAudioWav
       THEN /\ wav_handle' = [wav_handle EXCEPT ![g] = "open"]
            /\ wav_ref' = g
            /\ wav_file' = <<>>
       ELSE UNCHANGED <<wav_handle, wav_ref, wav_file>>
    /\ w_pc' = [w_pc EXCEPT ![g] = "check"]
    /\ UNCHANGED <<stop_event, caller_pc, returned, join_timeouts, gen, stopped_gens,
                   device_tries, device_ok, stream, streams_active, w_data, loop_ref,
                   t_pc, t_sw, t_outcomes, custom_emit, batch,
                   life_iterations>>
    /\ UNCHANGED <<audio_q, samples_written, writer_pc, writer_data,
                   produced, cb_outcome, cb_during, accepted, dequeued>>
    /\ UNCHANGED <<ringVars, dedupVars>>
    /\ UNCHANGED <<windowVars, paceVars>>

\* _audio_writer: while not self._stop_event.is_set()  (live.py 166)
LifeWriterCheck(g) ==
    /\ w_pc[g] = "check"
    /\ w_pc' = [w_pc EXCEPT ![g] = WriterAfterCheck(stop_event)]
    /\ UNCHANGED <<stop_event, caller_pc, returned, join_timeouts, gen, stopped_gens,
                   device_tries, device_ok, stream, streams_active, w_data, wav_handle,
                   wav_ref, loop_ref, t_pc, t_sw, t_outcomes, custom_emit,
                   batch, life_iterations>>
    /\ UNCHANGED <<ringVars, queueVars, dedupVars>>
    /\ UNCHANGED <<windowVars, paceVars>>

\* _audio_writer: self._audio_q.get(timeout=0.1) returns a block
\* (live.py 167-168)
LifeWriterGet(g) ==
    /\ w_pc[g] = "get"
    /\ audio_q # <<>>
    /\ LET got == QueueGet(audio_q)
       IN  /\ audio_q' = got.q
           /\ w_data' = [w_data EXCEPT ![g] = got.item]
           /\ dequeued' = Append(dequeued, got.item)
    /\ w_pc' = [w_pc EXCEPT ![g] = "append"]
    /\ UNCHANGED <<stop_event, caller_pc, returned, join_timeouts, gen, stopped_gens,
                   device_tries, device_ok, stream, streams_active, wav_handle, wav_ref,
                   loop_ref, t_pc, t_sw, t_outcomes, custom_emit, batch,
                   life_iterations>>
    /\ UNCHANGED <<wav_file, samples_written, writer_pc, writer_data,
                   produced, cb_outcome, cb_during, accepted>>
    /\ UNCHANGED <<ringVars, dedupVars>>
    /\ UNCHANGED <<windowVars, paceVars>>

\* _audio_writer: the get times out, queue.Empty, continue (live.py 169-170)
LifeWriterTimeout(g) ==
    /\ w_pc[g] = "get"
    /\ audio_q = <<>>
    /\ w_pc' = [w_pc EXCEPT ![g] = "check"]
    /\ UNCHANGED <<stop_event, caller_pc, returned, join_timeouts, gen, stopped_gens,
                   device_tries, device_ok, stream, streams_active, w_data, wav_handle,
                   wav_ref, loop_ref, t_pc, t_sw, t_outcomes, custom_emit,
                   batch, life_iterations>>
    /\ UNCHANGED <<ringVars, queueVars, dedupVars>>
    /\ UNCHANGED <<windowVars, paceVars>>

\* _audio_writer: self._ring.append(data)  (live.py 171)
LifeWriterAppend(g) ==
    /\ w_pc[g] = "append"
    /\ LockFree
    /\ buffer' = AppendBuffer(buffer, write_pos, w_data[g])
    /\ write_pos' = AppendWritePos(write_pos, Len(w_data[g]))
    /\ size' = AppendSize(size, Len(w_data[g]))
    /\ total' = total + Len(w_data[g])
    /\ wholesale' = AppendWholesale(wholesale, write_pos, size, total,
                                    w_data[g])
    /\ w_pc' = [w_pc EXCEPT ![g] = "wav"]
    /\ UNCHANGED <<lock, app_pc, app_data, get_pc, get_n_samples, get_n,
                   get_start, get_result, get_views>>
    /\ UNCHANGED <<stop_event, caller_pc, returned, join_timeouts, gen, stopped_gens,
                   device_tries, device_ok, stream, streams_active, w_data, wav_handle,
                   wav_ref, loop_ref, t_pc, t_sw, t_outcomes, custom_emit,
                   batch, life_iterations>>
    /\ UNCHANGED <<queueVars, dedupVars>>
    /\ UNCHANGED <<windowVars, paceVars>>

\* _audio_writer: self._wav_file.write(data) returns, or raises: always on a
\* file that was closed, and whenever the disk fails (live.py 172-173)
LifeWriterWav(g, disk_error) ==
    /\ w_pc[g] = "wav"
    /\ LET raised == wav_ref # 0 /\
                     (disk_error \/ wav_handle[wav_ref] = "closed")
       IN  /\ w_pc' = [w_pc EXCEPT ![g] = WriterAfterWav(raised)]
           /\ wav_file' = IF wav_ref # 0 /\ ~raised
                          THEN WavWrite(wav_file, w_data[g])
                          ELSE wav_file
    /\ UNCHANGED <<stop_event, caller_pc, returned, join_timeouts, gen, stopped_gens,
                   device_tries, device_ok, stream, streams_active, w_data, wav_handle,
                   wav_ref, loop_ref, t_pc, t_sw, t_outcomes, custom_emit,
                   batch, life_iterations>>
    /\ UNCHANGED <<audio_q, samples_written, writer_pc, writer_data,
                   produced, cb_outcome, cb_during, accepted, dequeued>>
    /\ UNCHANGED <<ringVars, dedupVars>>
    /\ UNCHANGED <<windowVars, paceVars>>

\* _audio_writer: self._samples_written += len(data)  (live.py 174-176)
LifeWriterCount(g) ==
    /\ w_pc[g] = "count"
    /\ samples_written' = samples_written + Len(w_data[g])
    /\ w_data' = [w_data EXCEPT ![g] = <<>>]
    /\ w_pc' = [w_pc EXCEPT ![g] = "check"]
    /\ UNCHANGED <<stop_event, caller_pc, returned, join_timeouts, gen, stopped_gens,
                   device_tries, device_ok, stream, streams_active, wav_handle, wav_ref,
                   loop_ref, t_pc, t_sw, t_outcomes, custom_emit, batch,
                   life_iterations>>
    /\ UNCHANGED <<audio_q, wav_file, writer_pc, writer_data,
                   produced, cb_outcome, cb_during, accepted, dequeued>>
    /\ UNCHANGED <<ringVars, dedupVars>>
    /\ UNCHANGED <<windowVars, paceVars>>

\* _audio_writer: after the loop, self._wav_file.close()  (live.py 178-179)
LifeWriterClose(g) ==
    /\ w_pc[g] = "close"
    /\ wav_handle' = IF wav_ref # 0
                     THEN [wav_handle EXCEPT ![wav_ref] = "closed"]
                     ELSE wav_handle
    /\ w_pc' = [w_pc EXCEPT ![g] = "exited"]
    /\ UNCHANGED <<stop_event, caller_pc, returned, join_timeouts, gen, stopped_gens,
                   device_tries, device_ok, stream, streams_active, w_data, wav_ref,
                   loop_ref, t_pc, t_sw, t_outcomes, custom_emit, batch,
                   life_iterations>>
    /\ UNCHANGED <<ringVars, queueVars, dedupVars>>
    /\ UNCHANGED <<windowVars, paceVars>>

\* the variables of the calling thread and of the writer threads
callerVars == <<caller_pc, returned, join_timeouts, gen, stopped_gens,
                device_tries,
                device_ok, stream, streams_active, loop_ref, custom_emit>>

writerVars == <<w_pc, w_data, wav_handle, wav_ref>>

\* the dedup history the lifecycle does not record
dedupHistory == <<window_start_abs_sec, segments, new_emissions, last_before,
                  window_before, iterations, repeated>>

\* what the test `while not self._stop_event.is_set()` of the transcriber
\* loop leads to (live.py 202)
LoopAfterCheck(stopped) == IF stopped THEN "exited" ELSE "pace"

\* what follows an exception of self.model.transcribe: the first call's
\* TypeError leads to the call with fewer arguments, everything else to
\* `continue` (live.py 231-245)
AfterEngineFailure_RetryAny(calls, exc) ==
    IF calls = 1 THEN "retry" ELSE "continue"

AfterEngineFailure(calls, exc) ==
    IF calls = 1 /\ exc = "TypeError" THEN "retry" ELSE "continue"

\* _emit(segments) of the class: `lines` of the records are written before
\* the file fails (all of them when it does not fail), then each record is
\* pushed to the outlet and what a push raises is dropped (live.py 181-190)
EmitBuiltin(log, emissions, lines, publish_failed) ==
    [log |-> log \o SubSeq(emissions, 1, lines),
     raised |-> lines < Len(emissions)]

\* custom_emit(segments) of the application: every record's text goes to
\* send_lsl_message, whose handler of a failed push shows a message box from
\* the inference thread, and to the log display; original_emit is called
\* after that (mixins/live_whisper_transcription.py 271-285,
\* pho_launch_live_transcription.py 1436-1447)
CustomEmit(log, emissions, lines, publish_failed, dialog_raised) ==
    IF publish_failed /\ dialog_raised
    THEN [log |-> log, raised |-> TRUE]
    ELSE EmitBuiltin(log, emissions, lines, publish_failed)

\* the results the engine returns while start() and stop() are followed:
\* none, and a segment with a word followed by a segment without words
LifeResults ==
    {<<>>,
     <<EngineSegment([ends |-> <<StepTicks>>, words |-> TRUE], 1),
       EngineSegment([ends |-> <<StepTicks + Eps + 1>>, words |-> FALSE], 2)>>}

\* the calls of self.model.transcribe thread g has made in its iteration:
\* those that ended and the one in progress
EngineCalls(g) ==
    Len(t_outcomes[g]) + (IF t_pc[g] = "engine" THEN 1 ELSE 0)

\* _transcriber_loop: while not self._stop_event.is_set()  (live.py 202)
LifeLoopCheck(g) ==
    /\ t_pc[g] = "check"
    /\ t_pc' = [t_pc EXCEPT ![g] = LoopAfterCheck(stop_event)]
    /\ UNCHANGED <<stop_event, callerVars, writerVars, t_sw, t_outcomes,
                   batch, life_iterations>>
    /\ UNCHANGED <<ringVars, queueVars, dedupVars>>
    /\ UNCHANGED <<windowVars, paceVars>>

\* _transcriber_loop: the next tick is not due: sleep, continue
\* (live.py 203-206)
LifeLoopSleep(g) ==
    /\ t_pc[g] = "pace"
    /\ t_pc' = [t_pc EXCEPT ![g] = "check"]
    /\ UNCHANGED <<stop_event, callerVars, writerVars, t_sw, t_outcomes,
                   batch, life_iterations>>
    /\ UNCHANGED <<ringVars, queueVars, dedupVars>>
    /\ UNCHANGED <<windowVars, paceVars>>

\* _transcriber_loop: the tick is due and less than half a window of audio
\* is there: continue (live.py 207-214)
LifeLoopSkip(g, sw) ==
    /\ t_pc[g] = "pace"
    /\ sw >= loop_samples_written
    /\ AudioLen(sw) < WindowSamples \div 2
    /\ loop_samples_written' = sw
    /\ t_pc' = [t_pc EXCEPT ![g] = "check"]
    /\ UNCHANGED <<stop_event, callerVars, writerVars, t_sw, t_outcomes,
                   batch, life_iterations>>
    /\ UNCHANGED <<last_emitted_time, jsonl, dedupHistory, emission_count,
                   emit_calls>>
    /\ UNCHANGED <<ringVars, queueVars>>
    /\ UNCHANGED <<windowVars, paceVars>>

\* _transcriber_loop: the tick is due, the window is computed and
\* self.model.transcribe is called (live.py 207-230)
LifeLoopCall(g, sw) ==
    /\ t_pc[g] = "pace"
    /\ life_iterations < MaxLifeIterations
    /\ sw >= loop_samples_written
    /\ ~(AudioLen(sw) < WindowSamples \div 2)
    /\ loop_samples_written' = sw
    /\ t_sw' = [t_sw EXCEPT ![g] = sw]
    /\ t_outcomes' = [t_outcomes EXCEPT ![g] = <<>>]
    /\ t_pc' = [t_pc EXCEPT ![g] = "engine"]
    /\ life_iterations' = life_iterations + 1
    /\ UNCHANGED <<stop_event, callerVars, writerVars, batch>>
    /\ UNCHANGED <<last_emitted_time, jsonl, dedupHistory, emission_count,
                   emit_calls>>
    /\ UNCHANGED <<ringVars, queueVars>>
    /\ UNCHANGED <<windowVars, paceVars>>

\* _transcriber_loop: self.model.transcribe raises exc (live.py 231-245)
LifeLoopEngineRaise(g, exc) ==
    /\ t_pc[g] = "engine"
    /\ t_pc' = [t_pc EXCEPT ![g] =
                   IF AfterEngineFailure(EngineCalls(g), exc) = "retry"
                   THEN "engine" ELSE "check"]
    /\ t_outcomes' = [t_outcomes EXCEPT ![g] = Append(t_outcomes[g], exc)]
    /\ UNCHANGED <<stop_event, callerVars, writerVars, t_sw, batch,
                   life_iterations>>
    /\ UNCHANGED <<ringVars, queueVars, dedupVars>>
    /\ UNCHANGED <<windowVars, paceVars>>

\* _transcriber_loop: self.model.transcribe returned segs, and going
\* through them raises once k of them were handled; no handler encloses
\* `for seg in segments` (live.py 247-293)
LifeLoopConsumeRaise(g, segs, k) ==
    /\ t_pc[g] = "engine"
    /\ k <= Len(segs)
    /\ LET ws == WindowStartAbs(t_sw[g], AudioLen(t_sw[g]))
           done == DedupSegments(SubSeq(segs, 1, k), ws, last_emitted_time)
       IN  /\ last_emitted_time' = done.last
           /\ emission_count' = emission_count + Len(done.emissions)
    /\ t_pc' = [t_pc EXCEPT ![g] = "dead"]
    /\ t_outcomes' = [t_outcomes EXCEPT ![g] = Append(t_outcomes[g], "returned")]
    /\ UNCHANGED <<stop_event, callerVars, writerVars, t_sw, batch,
                   life_iterations>>
    /\ UNCHANGED <<jsonl, loop_samples_written, dedupHistory, emit_calls>>
    /\ UNCHANGED <<ringVars, queueVars>>
    /\ UNCHANGED <<windowVars, paceVars>>

\* _transcriber_loop: self.model.transcribe returned segs, they are
\* deduplicated and the new emissions, if any, go to self._emit; no
\* handler encloses the call of self._emit (live.py 247-296)
LifeLoopIteration(g, segs, lines, publish_failed, dialog_raised) ==
    /\ t_pc[g] = "engine"
    /\ LET ws == WindowStartAbs(t_sw[g], AudioLen(t_sw[g]))
           done == DedupSegments(segs, ws, last_emitted_time)
           sunk == IF custom_emit
                   THEN CustomEmit(jsonl, done.emissions, lines,
                                   publish_failed, dialog_raised)
                   ELSE EmitBuiltin(jsonl, done.emissions, lines,
                                    publish_failed)
       IN  /\ lines <= Len(done.emissions)
           /\ dialog_raised => (custom_emit /\ publish_failed)
           /\ last_emitted_time' = done.last
           /\ emission_count' = emission_count + Len(done.emissions)
           /\ IF ShouldEmit(done.emissions)
              THEN /\ jsonl' = sunk.log
                   /\ emit_calls' = emit_calls + 1
                   /\ batch' = [emissions |-> done.emissions,
                                publish_failed |-> publish_failed,
                                log_failed |-> lines < Len(done.emissions)]
                   /\ t_pc' = [t_pc EXCEPT ![g] =
                                  IF sunk.raised THEN "dead" ELSE "check"]
              ELSE /\ ~publish_failed
                   /\ UNCHANGED <<jsonl, batch, emit_calls>>
                   /\ t_pc' = [t_pc EXCEPT ![g] = "check"]
    /\ t_outcomes' = [t_outcomes EXCEPT ![g] = Append(t_outcomes[g], "returned")]
    /\ UNCHANGED <<stop_event, callerVars, writerVars, t_sw, life_iterations>>
    /\ UNCHANGED <<loop_samples_written, dedupHistory>>
    /\ UNCHANGED <<ringVars, queueVars>>
    /\ UNCHANGED <<windowVars, paceVars>>

\* the steps of the thread that calls start() and stop()
NextCaller ==
    \/ InstallCustomEmit
    \/ StartCall
    \/ \E opened \in BOOLEAN : StartStream(opened)
    \/ StartLoop
    \/ StopCall
    \/ StopStream
    \/ \E timed_out \in BOOLEAN : StopJoinLoop(timed_out)
    \/ \E timed_out \in BOOLEAN : StopJoinWriter(timed_out)

\* the steps of the audio device and of the writer threads
NextWriters ==
    \/ LifeCallback
    \/ \E g \in Gens :
          \/ LifeWriterOpen(g)
          \/ LifeWriterCheck(g)
          \/ LifeWriterGet(g)
          \/ LifeWriterTimeout(g)
          \/ LifeWriterAppend(g)
          \/ \E disk_error \in BOOLEAN : LifeWriterWav(g, disk_error)
          \/ LifeWriterCount(g)
          \/ LifeWriterClose(g)

\* the steps of the transcriber threads
NextLoops ==
    \E g \in Gens :
        \/ LifeLoopCheck(g)
        \/ LifeLoopSleep(g)
        \/ \E sw \in Snapshots : LifeLoopSkip(g, sw)
        \/ \E sw \in Snapshots : LifeLoopCall(g, sw)
        \/ \E exc \in {"TypeError", "Error"} : LifeLoopEngineRaise(g, exc)
        \/ \E segs \in LifeResults : \E k \in 0..MaxSegs :
               LifeLoopConsumeRaise(g, segs, k)
        \/ \E segs \in LifeResults : \E lines \in 0..MaxSegs :
           \E publish_failed \in BOOLEAN : \E dialog_raised \in BOOLEAN :
               LifeLoopIteration(g, segs, lines, publish_failed,
                                 dialog_raised)

NextLife == NextCaller \/ NextWriters \/ NextLoops

\* start() and stop() with only the writer threads scheduled
NextLifeWriter == NextCaller \/ NextWriters

\* start() and stop() with only the transcriber threads scheduled
NextLifeLoop == NextCaller \/ NextLoops

SpecLife == Init /\ [][NextLife]_vars

SpecLifeWriter == Init /\ [][NextLifeWriter]_vars

SpecLifeLoop == Init /\ [][NextLifeLoop]_vars

---------------------------------------------------------------------------
\* One iteration of _transcriber_loop statement by statement, next to the
\* audio writer (live.py 166-176, 207-296), with the numbers of the default
\* LiveConfig.  The ring buffer is represented by `total`, the number of
\* samples appended to it: get_last(window) returns the last
\* min(window, total, capacity) of them (C1, C2, C8, C21, C22).

\* the writer thread may get this many blocks ahead of a transcriber
\* iteration between its snapshot and its read
MaxStall == 2

\* engine-calling iterations followed statement by statement
MaxWindowIterations == 2

\* blocksize = int(self.cfg.sample_rate * 0.05)  (live.py 312)
BlockSamples == SampleRate \div 20

\* capacity_samples = int(sample_rate * max(chunk_length_s * 2, 60))
RingSamples == SampleRate * Max(ChunkLengthS * 2, 60)

\* blocks the audio device delivers
MaxWindowBlocks ==
    (WindowSamples + MaxAhead * StepSamples) \div BlockSamples + MaxStall

\* the values of _samples_written at which a tick of the loop is due:
\* early in the session, a block before half a window, and at the
\* snapshots of the dedup iterations
TickPoints ==
    Snapshots \cup {WindowSamples \div 2 - BlockSamples}

\* self._ring.get_last(window) once `appended` samples were appended: the
\* session index of the first sample returned and the number returned
WindowRead(appended) ==
    LET n == Min(WindowSamples, Min(appended, RingSamples))
    IN  [first |-> appended - n, len |-> n]

\* if len(audio) < window // 2  (live.py 213)
TooShort_Never(audio_len) == FALSE

TooShort(audio_len) == audio_len < WindowSamples \div 2

\* _audio_writer: self._audio_q.get returns a block of the device
\* (live.py 166-168)
WindowWriterGet ==
    /\ writer_pc = "get"
    /\ produced < MaxWindowBlocks
    /\ produced' = produced + 1
    /\ writer_pc' = "append"
    /\ UNCHANGED <<audio_q, wav_file, samples_written, writer_data,
                   cb_outcome, cb_during, accepted, dequeued>>
    /\ UNCHANGED <<ringVars, dedupVars, lifeVars, windowVars>>
    /\ UNCHANGED paceVars

\* _audio_writer: self._ring.append(data)  (live.py 171)
WindowWriterAppend ==
    /\ writer_pc = "append"
    /\ total' = total + BlockSamples
    /\ writer_pc' = "count"
    /\ UNCHANGED <<buffer, write_pos, size, lock, app_pc, app_data, get_pc,
                   get_n_samples, get_n, get_start, get_result, get_views,
                   wholesale>>
    /\ UNCHANGED <<audio_q, wav_file, samples_written, writer_data, produced,
                   cb_outcome, cb_during, accepted, dequeued>>
    /\ UNCHANGED <<dedupVars, lifeVars, windowVars>>
    /\ UNCHANGED paceVars

\* _audio_writer: the block is written to the sound file and counted:
\* self._samples_written += len(data)  (live.py 172-176)
WindowWriterCount ==
    /\ writer_pc = "count"
    /\ samples_written' = samples_written + BlockSamples
    /\ writer_pc' = "get"
    /\ UNCHANGED <<audio_q, wav_file, writer_data, produced, cb_outcome, cb_during,
                   accepted, dequeued>>
    /\ UNCHANGED <<ringVars, dedupVars, lifeVars, windowVars>>
    /\ UNCHANGED paceVars

\* _transcriber_loop: the tick is due; samples_written =
\* self._samples_written  (live.py 207-211)
WindowSnapshot ==
    /\ win_pc = "pace"
    /\ samples_written \in TickPoints
    /\ win_sw' = samples_written
    /\ win_pc' = "read"
    /\ UNCHANGED <<win_audio, win_outcome>>
    /\ UNCHANGED <<ringVars, queueVars, dedupVars, lifeVars>>
    /\ UNCHANGED paceVars

\* _transcriber_loop: audio = self._ring.get_last(window)  (live.py 212)
WindowGetLast ==
    /\ win_pc = "read"
    /\ total - win_sw <= MaxStall * BlockSamples
    /\ win_audio' = WindowRead(total)
    /\ win_pc' = "window"
    /\ UNCHANGED <<win_sw, win_outcome>>
    /\ UNCHANGED <<ringVars, queueVars, dedupVars, lifeVars>>
    /\ UNCHANGED paceVars

\* _transcriber_loop: less than half a window was returned: continue
\* (live.py 213-214)
WindowSkip ==
    /\ win_pc = "window"
    /\ TooShort(win_audio.len)
    /\ win_outcome' = "skipped"
    /\ win_pc' = "pace"
    /\ loop_samples_written' = win_sw
    /\ UNCHANGED <<win_sw, win_audio>>
    /\ UNCHANGED <<last_emitted_time, jsonl, dedupHistory, emission_count,
                   emit_calls>>
    /\ UNCHANGED <<ringVars, queueVars, lifeVars>>
    /\ UNCHANGED paceVars

\* _transcriber_loop: the window start is computed, the engine returns
\* segs, they are deduplicated and emitted (live.py 213-296)
WindowIteration(segs) ==
    /\ win_pc = "window"
    /\ ~TooShort(win_audio.len)
    /\ iterations < MaxWindowIterations
    /\ LET ws == WindowStartAbs(win_sw, win_audio.len)
           done == DedupSegments(segs, ws, last_emitted_time)
       IN  /\ window_start_abs_sec' = ws
           /\ new_emissions' = done.emissions
           /\ last_emitted_time' = done.last
           /\ jsonl' = IF ShouldEmit(done.emissions)
                       THEN Emit(jsonl, done.emissions)
                       ELSE jsonl
           /\ emit_calls' = emit_calls +
                             (IF ShouldEmit(done.emissions) THEN 1 ELSE 0)
           /\ repeated' = (iterations >= 1 /\ segs = segments
                           /\ ws = window_start_abs_sec)
           /\ emission_count' = emission_count + Len(done.emissions)
    /\ loop_samples_written' = win_sw
    /\ segments' = segs
    /\ last_before' = last_emitted_time
    /\ window_before' = window_start_abs_sec
    /\ iterations' = iterations + 1
    /\ win_outcome' = "ran"
    /\ win_pc' = "pace"
    /\ UNCHANGED <<win_sw, win_audio>>
    /\ UNCHANGED <<ringVars, queueVars, lifeVars>>
    /\ UNCHANGED paceVars

NextWindow ==
    \/ WindowWriterGet
    \/ WindowWriterAppend
    \/ WindowWriterCount
    \/ WindowSnapshot
    \/ WindowGetLast
    \/ WindowSkip
    \/ \E segs \in LifeResults : WindowIteration(segs)

SpecWindow == Init /\ [][NextWindow]_vars

---------------------------------------------------------------------------
\* The same iteration next to the capture callback and the hand-off queue
\* (live.py 149-176, 207-296): the audio device may outrun the writer and
\* find the queue full.  A block is represented by its number in the
\* device's stream; every block holds BlockSamples samples.

\* deliveries that may find the queue full: those that follow the first
\* QueueMaxsize of the session
MaxDrops == 1

\* blocks the audio device delivers
MaxDriftBlocks ==
    WindowSamples \div BlockSamples + QueueMaxsize + 1 + MaxDrops + MaxStall

\* the values of _samples_written at which a tick of the loop is due: a
\* block before half a window, and once the window has slid past the first
\* QueueMaxsize + 1 blocks
DriftTicks ==
    {WindowSamples \div 2 - BlockSamples,
     WindowSamples + (QueueMaxsize + 1) * BlockSamples}

\* _audio_callback(indata, ...), called by the audio device's thread
DriftCallback ==
    /\ produced < MaxDriftBlocks
    /\ LET put == PutNowait(audio_q, produced + 1)
       IN  /\ put.raised = "Full" => produced < QueueMaxsize + MaxDrops
           /\ audio_q' = put.q
           /\ cb_outcome' = CallbackOutcome(put.raised)
           /\ accepted' = IF put.raised = "none"
                          THEN Append(accepted, produced + 1)
                          ELSE accepted
    /\ produced' = produced + 1
    /\ cb_during' = lock
    /\ UNCHANGED <<wav_file, samples_written, writer_pc, writer_data,
                   dequeued>>
    /\ UNCHANGED <<ringVars, dedupVars, lifeVars, windowVars>>
    /\ UNCHANGED paceVars

\* _audio_writer: data = self._audio_q.get(timeout=0.1) returns a block
\* (live.py 166-168)
DriftWriterGet ==
    /\ writer_pc = "get"
    /\ audio_q # <<>>
    /\ audio_q' = QueueGet(audio_q).q
    /\ writer_pc' = "append"
    /\ UNCHANGED <<wav_file, samples_written, writer_data, produced,
                   cb_outcome, cb_during, accepted, dequeued>>
    /\ UNCHANGED <<ringVars, dedupVars, lifeVars, windowVars>>
    /\ UNCHANGED paceVars

\* _transcriber_loop: the tick is due; samples_written =
\* self._samples_written  (live.py 207-211)
DriftSnapshot ==
    /\ win_pc = "pace"
    /\ samples_written \in DriftTicks
    /\ win_sw' = samples_written
    /\ win_pc' = "read"
    /\ UNCHANGED <<win_audio, win_outcome>>
    /\ UNCHANGED <<ringVars, queueVars, dedupVars, lifeVars>>
    /\ UNCHANGED paceVars

NextDrift ==
    \/ DriftCallback
    \/ DriftWriterGet
    \/ WindowWriterAppend
    \/ WindowWriterCount
    \/ DriftSnapshot
    \/ WindowGetLast
    \/ WindowSkip
    \/ \E segs \in LifeResults : WindowIteration(segs)

SpecDrift == Init /\ [][NextDrift]_vars

---------------------------------------------------------------------------
\* The three parts side by side

---------------------------------------------------------------------------
\* The pacing of _transcriber_loop (live.py 200-207): the wall clock in
\* ticks of 10 ms, the sleeps of the loop and the time its iterations take

\* time.sleep(min(0.02, ...)): the 0.02 s in ticks (live.py 205)
SleepTicks == 2

\* how many ticks a sleep may last beyond what was asked
MaxOversleep == 1

\* the iterations of the paced loop that are followed
MaxPaceIterations == 3

\* the time an iteration takes after next_time was set: none to speak of
\* (the window was too short), less than a step, more than one step, more
\* than two steps
Durations ==
    {0, StepTicks \div 4, StepTicks + StepTicks \div 4,
     2 * StepTicks + StepTicks \div 4}

\* time.sleep(min(0.02, next_time - now))  (live.py 205)
SleepFor(now, next) == Min(SleepTicks, next - now)

\* next_time = now + self.cfg.step_s  (live.py 207)
NextTime_Catchup(now, next) == next + StepTicks

NextTime(now, next) == now + StepTicks

\* now = time.time()  (live.py 203)
PaceReadClock ==
    /\ pace_pc = "check"
    /\ Len(pace_starts) < MaxPaceIterations
    /\ pace_now' = clock
    /\ pace_pc' = "compare"
    /\ UNCHANGED <<clock, next_time, pace_starts>>
    /\ UNCHANGED <<ringVars, queueVars, dedupVars, lifeVars, windowVars>>

\* if now < next_time: time.sleep(min(0.02, next_time - now)); continue
\* (live.py 204-206)
PaceSleep(over) ==
    /\ pace_pc = "compare"
    /\ pace_now < next_time
    /\ clock' = clock + SleepFor(pace_now, next_time) + over
    /\ pace_pc' = "check"
    /\ UNCHANGED <<next_time, pace_now, pace_starts>>
    /\ UNCHANGED <<ringVars, queueVars, dedupVars, lifeVars, windowVars>>

\* next_time = now + self.cfg.step_s: an iteration starts (live.py 207)
PaceFire ==
    /\ pace_pc = "compare"
    /\ ~(pace_now < next_time)
    /\ next_time' = NextTime(pace_now, next_time)
    /\ pace_starts' = Append(pace_starts, pace_now)
    /\ pace_pc' = "body"
    /\ UNCHANGED <<clock, pace_now>>
    /\ UNCHANGED <<ringVars, queueVars, dedupVars, lifeVars, windowVars>>

\* the rest of the iteration, the engine call included, takes d ticks and
\* the loop comes back to its test (live.py 209-296)
PaceBody(d) ==
    /\ pace_pc = "body"
    /\ clock' = clock + d
    /\ pace_pc' = "check"
    /\ UNCHANGED <<next_time, pace_now, pace_starts>>
    /\ UNCHANGED <<ringVars, queueVars, dedupVars, lifeVars, windowVars>>

NextPace ==
    \/ PaceReadClock
    \/ \E over \in 0..MaxOversleep : PaceSleep(over)
    \/ PaceFire
    \/ \E d \in Durations : PaceBody(d)

SpecPace == Init /\ [][NextPace]_vars

Next ==
    \/ NextRing \/ NextQueue \/ NextCapture \/ NextDedup \/ NextLife
    \/ NextWindow \/ NextDrift \/ NextPace

Spec == Init /\ [][Next]_vars

---------------------------------------------------------------------------
\* What get_last(k) must return once c samples were appended: the last
\* min(k, c, capacity) of them, in the order they were appended
LastAppended(c, k) ==
    LET n == Min(k, Min(c, RingCapacity))
    IN  Range(c - n + 1, c)

\* C1: while no more than capacity samples were appended in all, get_last(k)
\* returns exactly the last k appended samples, in order, for every k from
\* 0 to the current size.
C1_LastKWithinCapacity ==
    (app_pc \in {"idle", "lock"} /\ total <= RingCapacity) =>
        /\ size = total
        /\ \A k \in 0..size : GetLast(k) = Range(total - k + 1, total)
        /\ (get_pc = "done" /\ get_views = {total} /\ get_n_samples <= size) =>
               get_result = Range(total - get_n_samples + 1, total)

C1_Witness ==
    /\ total = RingCapacity
    /\ write_pos = 0
    /\ app_pc = "idle"
    /\ get_pc = "done"
    /\ get_views = {total}
    /\ get_n_samples = RingCapacity - 1
    /\ get_result = Range(2, RingCapacity)

\* C2: once more than capacity samples were appended in all (any mix of
\* block sizes, wraparound and oversized blocks included), after every
\* append the buffer holds exactly the most recent capacity samples:
\* size = capacity, get_last(capacity) returns them in temporal order, and
\* no get_last returns an older sample.
C2_MostRecentCapacity ==
    (app_pc \in {"idle", "lock"} /\ total > RingCapacity) =>
        /\ size = RingCapacity
        /\ GetLast(RingCapacity) = Range(total - RingCapacity + 1, total)
        /\ \A k \in 0..MaxRead :
               /\ GetLast(k) = LastAppended(total, k)
               /\ \A i \in 1..Len(GetLast(k)) :
                      GetLast(k)[i] > total - RingCapacity
        /\ (get_pc = "done" /\ get_views = {total}) =>
               \A i \in 1..Len(get_result) :
                   get_result[i] > total - RingCapacity

C2_Witness ==
    /\ total > 2 * RingCapacity
    /\ write_pos = 1
    /\ app_pc = "idle"
    /\ get_pc = "done"
    /\ get_views = {total}
    /\ get_n_samples > RingCapacity
    /\ get_result = Range(total - RingCapacity + 1, total)

\* C8: append and get_last exclude each other: under every interleaving,
\* a get_last returns what it would return run alone after some whole
\* number of the appends, one that had completed when it was called or one
\* that overlapped it; never a half-written block, nor a cursor and a size
\* left by different appends.
C8_GetLastAtomic ==
    get_pc = "done" =>
        \E c \in get_views : get_result = LastAppended(c, get_n_samples)

C8_Witness ==
    /\ get_pc = "done"
    /\ Cardinality(get_views) = 2
    /\ total > RingCapacity
    /\ Len(get_result) = RingCapacity
    /\ get_result = LastAppended(total, get_n_samples)

\* C9: the capture callback drops on a full queue without blocking: when
\* the hand-off queue already holds its 50 blocks the callback discards
\* the new block, raises nothing, leaves the queue as it was and returns;
\* and the queue never holds more than 50 blocks.
C9_DropOnFull ==
    /\ [](Len(audio_q) <= QueueMaxsize /\ cb_outcome # "raised")
    /\ [][(produced' = produced + 1 /\ Len(audio_q) = QueueMaxsize) =>
              /\ audio_q' = audio_q
              /\ accepted' = accepted
              /\ cb_outcome' = "dropped"]_vars

C9_Witness ==
    /\ Len(audio_q) = QueueMaxsize
    /\ cb_outcome = "dropped"
    /\ produced = Len(accepted) + 2
    /\ dequeued # <<>>

\* C10: whatever is produced and however long the consumer stalls, the
\* blocks the audio writer dequeues are exactly the blocks the callback
\* accepted, in production order, none twice and none out of order: the
\* dequeued blocks followed by the queued ones are the accepted ones, and
\* the accepted ones are in the order the device delivered them.
C10_DequeuedAreAcceptedInOrder ==
    /\ dequeued \o audio_q = accepted
    /\ \A i \in 1..Len(accepted) :
           /\ \E b \in 1..produced : accepted[i] = Block(b)
           /\ i > 1 => accepted[i - 1][1] < accepted[i][1]

C10_Witness ==
    /\ produced > Len(accepted)
    /\ Len(dequeued) > QueueMaxsize
    /\ dequeued = accepted
    /\ dequeued[Len(dequeued)] = Block(produced)

\* the words of the emissions ems, in order
RECURSIVE WordsOfEmissions(_)
WordsOfEmissions(ems) ==
    IF ems = <<>> THEN <<>>
    ELSE Head(ems).words \o WordsOfEmissions(Tail(ems))

\* how many of the words of the latest iteration's emissions carry text t
EmittedCount(t) ==
    LET ws == WordsOfEmissions(new_emissions)
    IN  Cardinality({k \in 1..Len(ws) : ws[k].text = t})

\* the units segment i of the latest result offers to the dedup: its words,
\* or itself when it has none; each with its session-relative end time
UnitsOf(i) ==
    IF segments[i].words # <<>>
    THEN {[text |-> segments[i].words[j].word,
           end |-> window_start_abs_sec + segments[i].words[j].end] :
              j \in 1..Len(segments[i].words)}
    ELSE {[text |-> segments[i].text,
           end |-> window_start_abs_sec + Max(0, segments[i].end)]}

\* the latest iteration's window and the window of the iteration before it
\* are consecutive: one step apart, overlapping by the window less a step
ConsecutiveWindows ==
    /\ iterations >= 2
    /\ window_start_abs_sec = window_before + StepTicks

\* C3: last_emitted_time never decreases, whatever segments, word offsets
\* and window starts the iterations are given and however the windows
\* overlap.
C3_LastEmittedMonotone ==
    [][last_emitted_time' >= last_emitted_time]_vars

C3_Witness ==
    /\ ConsecutiveWindows
    /\ last_before > 0
    /\ last_emitted_time > last_before
    /\ Len(segments) = 2
    /\ Len(new_emissions) = 1

\* C4: a word whose session-relative end time is at or before the
\* last_emitted_time an iteration starts with is not emitted by that
\* iteration: every word of every record the iteration writes ends after it.
C4_NoReEmission ==
    iterations >= 1 =>
        \A r \in 1..Len(new_emissions) :
            \A j \in 1..Len(new_emissions[r].words) :
                new_emissions[r].words[j].end > last_before

C4_Witness ==
    /\ ConsecutiveWindows
    /\ Len(segments) = 1
    /\ \E u \in UnitsOf(1) :
           /\ u.end <= last_before
           /\ EmittedCount(u.text) = 0
           /\ \E r \in 1..Len(jsonl) : \E j \in 1..Len(jsonl[r].words) :
                  jsonl[r].words[j].end = u.end
    /\ \E u \in UnitsOf(1) : EmittedCount(u.text) = 1

\* C5 as stated: in the second of two consecutive windows, every word the
\* engine returns whose session-relative end time is strictly after the
\* last_emitted_time the iteration starts with is emitted exactly once.
C5_Original_EmittedIfStrictlyAfter ==
    ConsecutiveWindows =>
        \A i \in 1..Len(segments) : \A u \in UnitsOf(i) :
            u.end > last_before => EmittedCount(u.text) = 1

\* last_emitted_time when segment i of the latest result is reached: the
\* value the iteration started with, advanced to the latest end time among
\* the words emitted for the segments before i
LastAtSegment(i) ==
    LET ws == WordsOfEmissions(new_emissions)
        ends == {last_before} \cup
                {ws[k].end : k \in {k \in 1..Len(ws) : ws[k].text[1] < i}}
    IN  CHOOSE m \in ends : \A e \in ends : m >= e

\* C5 (amended): every word the engine returns whose session-relative end
\* time is more than the 20 ms tolerance after the last_emitted_time in
\* force when its segment is reached is put in the iteration's records
\* exactly once.
C5_EmittedIfPastTolerance ==
    iterations >= 1 =>
        \A i \in 1..Len(segments) : \A u \in UnitsOf(i) :
            u.end > LastAtSegment(i) + Eps => EmittedCount(u.text) = 1

C5_Witness ==
    /\ ConsecutiveWindows
    /\ last_before > 0
    /\ Len(segments) = 2
    /\ \E u \in UnitsOf(2) :
           /\ u.end > LastAtSegment(2) + Eps
           /\ LastAtSegment(2) > last_before
           /\ EmittedCount(u.text) = 1
    /\ \E u \in UnitsOf(2) : EmittedCount(u.text) = 0

\* C6: an iteration handed the same result for the same window start as
\* the iteration before it emits nothing and leaves last_emitted_time as it
\* was, with word offsets and with segments without words alike.
C6_Idempotent ==
    repeated =>
        /\ new_emissions = <<>>
        /\ last_emitted_time = last_before

C6_Witness ==
    /\ repeated
    /\ Len(segments) = 2
    /\ segments[1].words # <<>>
    /\ segments[2].words = <<>>
    /\ Len(jsonl) = 2
    /\ new_emissions = <<>>

\* the segment of the scenario: words ending 2 s, 4 s and 6 s into the
\* window
ScenarioSegments == <<EngineSegment([ends |-> ScenarioEnds, words |-> TRUE], 1)>>

\* the end times of the words of emission e
WordEnds(e) == [j \in 1..Len(e.words) |-> e.words[j].end]

\* C7: with a 15 s window, a 2 s step and 16000 samples a second, a first
\* call at 15 s returning one segment with words ending at 2 s, 4 s and 6 s
\* emits the three words and sets last_emitted_time to 6 s; a second call at
\* 17 s returning words ending at 4 s, 6 s and 8 s of the session emits only
\* the word ending at 8 s and sets last_emitted_time to 8 s.
C7_Scenario ==
    /\ (/\ iterations = 1
        /\ loop_samples_written = 15 * SampleRate
        /\ segments = ScenarioSegments) =>
           /\ Len(new_emissions) = 1
           /\ WordEnds(new_emissions[1]) = <<200, 400, 600>>
           /\ jsonl = new_emissions
           /\ last_emitted_time = 600
    /\ (/\ iterations = 2
        /\ window_before = 0
        /\ Len(jsonl) >= 1
        /\ WordEnds(jsonl[1]) = <<200, 400, 600>>
        /\ last_before = 600
        /\ loop_samples_written = 17 * SampleRate
        /\ segments = ScenarioSegments) =>
           /\ window_start_abs_sec = 200
           /\ Len(new_emissions) = 1
           /\ WordEnds(new_emissions[1]) = <<800>>
           /\ jsonl = <<jsonl[1]>> \o new_emissions
           /\ last_emitted_time = 800

C7_Witness ==
    /\ iterations = 2
    /\ window_before = 0
    /\ window_start_abs_sec = 200
    /\ loop_samples_written = 17 * SampleRate
    /\ segments = ScenarioSegments
    /\ last_before = 600
    /\ Len(jsonl) = 2
    /\ WordEnds(jsonl[1]) = <<200, 400, 600>>
    /\ WordEnds(jsonl[2]) = <<800>>
    /\ last_emitted_time = 800

---------------------------------------------------------------------------
\* Error handling and termination (C11-C18)

\* the samples of the blocks in q, in order
RECURSIVE Flatten(_)
Flatten(q) == IF q = <<>> THEN <<>> ELSE Head(q) \o Flatten(Tail(q))

\* no writer thread is between taking a block and counting it
WritersAtRest == \A g \in Gens : w_pc[g] \notin {"append", "wav", "count"}

\* C11: a write to the audio file that raises does not halt buffering: no
\* writer thread is ended by it, and every block a writer thread took from
\* the queue is appended to the ring buffer and counted in
\* samples_written.
C11_WavFailureDoesNotHaltBuffering ==
    /\ \A g \in Gens : w_pc[g] # "dead"
    /\ WritersAtRest =>
           /\ total = Len(Flatten(dequeued))
           /\ samples_written = Len(Flatten(dequeued))

\* C12: no failure inside an iteration of the inference loop ends the
\* thread: a transcriber thread that was started runs until it finds the
\* stop event set.
C12_IterationFailureNotFatal ==
    \A g \in Gens :
        /\ t_pc[g] # "dead"
        /\ t_pc[g] = "exited" => g \in stopped_gens

\* how the latest engine call of thread g's iteration ended
LastOutcome(g) == t_outcomes[g][Len(t_outcomes[g])]

\* the engine call of thread g's iteration failed for good: it raised and
\* no further call follows
EngineFailed(g) ==
    /\ t_outcomes[g] # <<>>
    /\ LastOutcome(g) # "returned"
    /\ t_pc[g] # "engine"

\* C13: in one iteration the engine is called at most twice, the second
\* call only after the first raised TypeError; when the first call fails
\* otherwise or the second call fails, the step that ends the engine call
\* leaves the log and last_emitted_time as they were and takes the thread
\* back to the top of the loop, where it stays or waits for the next tick
\* until its next iteration.
C13_CapabilityNegotiation ==
    /\ [](\A g \in Gens :
             /\ EngineCalls(g) <= 2
             /\ EngineCalls(g) = 2 => t_outcomes[g][1] = "TypeError"
             /\ EngineFailed(g) => t_pc[g] \in {"check", "pace", "exited"})
    /\ [][\A g \in Gens :
             (t_outcomes'[g] # t_outcomes[g] /\ EngineFailed(g)') =>
                 /\ jsonl' = jsonl
                 /\ last_emitted_time' = last_emitted_time
                 /\ batch' = batch
                 /\ t_pc'[g] = "check"]_vars

C13_Witness ==
    \E g \in Gens :
        /\ t_outcomes[g] = <<"TypeError", "Error">>
        /\ t_pc[g] = "pace"
        /\ jsonl # <<>>
        /\ life_iterations = 2

\* the batch is at the end of the log
BatchLogged ==
    /\ Len(jsonl) >= Len(batch.emissions)
    /\ SubSeq(jsonl, Len(jsonl) - Len(batch.emissions) + 1, Len(jsonl))
           = batch.emissions

\* C14: a failure to publish never affects the transcript log: when every
\* publish of the latest batch failed and the log file itself took the
\* writes, every record of the batch is in the log, with _emit of the class
\* and with the application's wrapper.
C14_PublishFailureKeepsLog ==
    (batch.publish_failed /\ ~batch.log_failed) => BatchLogged

\* C15: when the audio device is unavailable start() fails synchronously:
\* the step that finds the device unavailable ends start() with the
\* exception, the device was asked for once, and the inference thread of
\* that start() is never started.
C15_StartFailsSynchronously ==
    /\ [](~device_ok =>
             /\ gen >= 1
             /\ device_tries = 1
             /\ t_pc[gen] = "unstarted"
             /\ loop_ref # gen
             /\ caller_pc \notin {"start_stream", "start_loop"})
    /\ [][(caller_pc = "start_stream" /\ ~device_ok') =>
              /\ caller_pc' = "idle"
              /\ returned' = "start_raised"]_vars

C15_Witness ==
    /\ ~device_ok
    /\ gen = 2
    /\ returned = "start_raised"
    /\ caller_pc = "idle"
    /\ LoopAlive(1)
    /\ t_pc[2] = "unstarted"

\* C16: after stop() is signalled both background threads observe the stop
\* event and terminate: a thread that was alive when stop() was called
\* leaves its loop the next time it tests the event, the writer thread
\* after at most the block it holds and the inference thread after at most
\* its iteration in progress.
C16_StoppedThreadsExit ==
    [][\A g \in stopped_gens :
          /\ (w_pc[g] = "check" /\ w_pc'[g] # "check") => w_pc'[g] = "close"
          /\ (t_pc[g] = "check" /\ t_pc'[g] # "check") => t_pc'[g] = "exited"
      ]_vars

\* stop() is in progress
Stopping == caller_pc \in {"stop_stream", "join_loop", "join_writer"}

\* the steps of stop() after the event is set
StopSteps ==
    \/ StopStream
    \/ \E timed_out \in BOOLEAN : StopJoinLoop(timed_out)
    \/ \E timed_out \in BOOLEAN : StopJoinWriter(timed_out)

\* the thread that calls stop() keeps running; nothing is assumed of the
\* background threads nor of the engine
SpecLifeLoopStop == SpecLifeLoop /\ WF_vars(StopSteps)

\* C17: stop() always returns: each join waits no longer than its timeout,
\* so a stop() in progress returns also when a thread never exits.
C17_StopReturns == Stopping ~> (caller_pc = "idle" /\ returned = "stop")

C17_Witness ==
    /\ caller_pc = "idle"
    /\ returned = "stop"
    /\ join_timeouts = {"loop", "writer"}
    /\ loop_ref # 0
    /\ t_pc[loop_ref] = "engine"

\* C18: with audio persistence enabled the audio file is closed by the time
\* stop() has returned, in every execution.
C18_WavClosedAfterStop ==
    (caller_pc = "idle" /\ returned = "stop") =>
        \A g \in Gens : wav_handle[g] # "open"

---------------------------------------------------------------------------
\* Order and overlap of the records (C19, C20)

\* the segment of the latest result that emission e was built from
SegmentOf(e) == e.words[1].text[1]

\* C19: the records reach the log in production order: an iteration
\* appends its records to the log, after those of the iterations before it
\* and in the order of the segments they were built from, and the
\* session-relative end times of successive records of the log do not
\* decrease.
C19_LogInProductionOrder ==
    /\ [](/\ \A r \in 1..(Len(new_emissions) - 1) :
                 SegmentOf(new_emissions[r]) < SegmentOf(new_emissions[r + 1])
          /\ \A r \in 1..(Len(jsonl) - 1) : jsonl[r].end <= jsonl[r + 1].end)
    /\ [][jsonl' = IF iterations' # iterations
                   THEN jsonl \o new_emissions'
                   ELSE jsonl]_vars

C19_Witness ==
    /\ ConsecutiveWindows
    /\ Len(jsonl) = 3
    /\ Len(new_emissions) = 2
    /\ \E j \in 1..Len(jsonl[1].words) : jsonl[1].words[j].end > jsonl[1].end
    /\ jsonl[2].end > jsonl[1].end

\* C20 as stated: every word of every record an iteration emits starts at
\* or after the last_emitted_time in force when its segment was reached, and
\* the session-relative intervals of successive records of the log do not
\* overlap.
C20_Original_StartsAfterCutoff ==
    /\ iterations >= 1 =>
           \A r \in 1..Len(new_emissions) :
               \A j \in 1..Len(new_emissions[r].words) :
                   new_emissions[r].words[j].start >=
                       LastAtSegment(SegmentOf(new_emissions[r]))
    /\ \A r \in 1..(Len(jsonl) - 1) : jsonl[r + 1].start >= jsonl[r].end

\* C20 (amended): every word of every record an iteration emits ends more
\* than the 20 ms tolerance after the last_emitted_time in force when its
\* segment was reached, whatever its start, and each record of the log ends
\* more than the tolerance after the record before it.
C20_EndsAfterCutoff ==
    /\ iterations >= 1 =>
           \A r \in 1..Len(new_emissions) :
               \A j \in 1..Len(new_emissions[r].words) :
                   new_emissions[r].words[j].end >
                       LastAtSegment(SegmentOf(new_emissions[r])) + Eps
    /\ \A r \in 1..(Len(jsonl) - 1) : jsonl[r + 1].end > jsonl[r].end + Eps

C20_Witness ==
    /\ iterations = 2
    /\ last_before > 0
    /\ \E r \in 1..Len(new_emissions) :
           /\ new_emissions[r].start < last_before
           /\ new_emissions[r].end > last_before + Eps
    /\ \E r \in 1..(Len(jsonl) - 1) : jsonl[r + 1].start < jsonl[r].end

---------------------------------------------------------------------------
\* The ring buffer at its edges (C21, C22)

\* the buffer's cells in index order
BufferCells == [i \in 1..RingCapacity |-> buffer[i - 1]]

\* C21: one append of at least capacity samples replaces the buffer by the
\* last capacity samples of the block, with the cursor at 0 and the size at
\* capacity, whatever cursor, size and contents it found; and after it
\* every append and get_last goes on returning the most recent samples in
\* the order they were appended.
C21_WholesaleReplace ==
    (wholesale.at # 0 /\ app_pc \in {"idle", "lock"}) =>
        /\ total = wholesale.at =>
               /\ BufferCells = Range(total - RingCapacity + 1, total)
               /\ write_pos = 0
               /\ size = RingCapacity
        /\ \A k \in 0..MaxRead : GetLast(k) = LastAppended(total, k)
        /\ (get_pc = "done" /\ get_views = {total}) =>
               get_result = LastAppended(total, get_n_samples)

C21_Witness ==
    /\ wholesale.wp # 0
    /\ wholesale.sz < RingCapacity
    /\ wholesale.at - wholesale.sz > RingCapacity
    /\ total > wholesale.at
    /\ write_pos # 0
    /\ app_pc = "idle"
    /\ get_pc = "done"
    /\ get_views = {total}
    /\ get_n_samples >= RingCapacity
    /\ get_result = Range(total - RingCapacity + 1, total)

\* C22: get_last(k) with k greater than the current size returns exactly
\* the size most recent samples, in the order they were appended, and the
\* empty sequence while nothing has been appended.
C22_ReadMoreThanSize ==
    /\ app_pc \in {"idle", "lock"} =>
           \A k \in 0..MaxRead : k > size =>
               /\ Len(GetLast(k)) = size
               /\ GetLast(k) = Range(total - size + 1, total)
    /\ (get_pc = "done" /\ get_views = {total} /\ get_n_samples > size) =>
           get_result = Range(total - size + 1, total)
    /\ (get_pc = "done" /\ total = 0) => get_result = <<>>

C22_Witness ==
    /\ get_pc = "done"
    /\ get_views = {total}
    /\ size > 0
    /\ size < RingCapacity
    /\ get_n_samples > RingCapacity
    /\ Len(get_result) = size
    /\ get_result = Range(1, total)

---------------------------------------------------------------------------
\* The transcript log and the window of an iteration (C23-C27)

\* C23: the transcript log is append-only with one line for each emission:
\* every step leaves the lines already written as they were, at the head
\* of the log, and the log has as many lines as emissions were produced.
C23_LogAppendOnly ==
    /\ [][/\ Len(jsonl') >= Len(jsonl)
          /\ SubSeq(jsonl', 1, Len(jsonl)) = jsonl]_vars
    /\ [](Len(jsonl) = emission_count)

\* C24: the window start of every iteration that runs the engine is the
\* session time of the first sample get_last returned to it, however the
\* audio writer's append and count interleave with the iteration's snapshot
\* and read.
C24_WindowStartIsReadOffset ==
    (win_outcome = "ran" /\ win_pc = "pace") =>
        window_start_abs_sec * SamplesPerTick = win_audio.first

\* C26: the engine is never called on less than half a window: an
\* iteration whose audio has fewer than half the samples of the window is
\* skipped, without an engine call and without an emission, and leaves
\* last_emitted_time and the transcript log as they were.
C26_SkipTooShort ==
    /\ []((win_outcome = "ran" /\ win_pc = "pace") =>
              2 * win_audio.len >= WindowSamples)
    /\ [][(/\ win_pc = "window"
           /\ win_pc' # "window"
           /\ win_audio.len < WindowSamples \div 2) =>
              /\ win_outcome' = "skipped"
              /\ iterations' = iterations
              /\ emission_count' = emission_count
              /\ jsonl' = jsonl
              /\ last_emitted_time' = last_emitted_time]_vars

C26_Witness ==
    /\ win_outcome = "skipped"
    /\ win_pc = "pace"
    /\ win_audio.len = WindowSamples \div 2 - BlockSamples
    /\ win_sw = win_audio.len
    /\ iterations = 0
    /\ jsonl = <<>>

\* C27: the window start of an iteration is max(0, (samples_written -
\* len(audio)) / sample_rate) of the snapshot taken at the top of that
\* iteration; it is never negative and never decreases from one iteration
\* to the next.
C27_WindowStartMonotone ==
    /\ [](window_start_abs_sec >= 0)
    /\ [][/\ window_start_abs_sec' >= window_start_abs_sec
          /\ iterations' # iterations =>
                 /\ win_sw' = win_sw
                 /\ window_start_abs_sec' * SamplesPerTick =
                        Max(0, win_sw - win_audio.len)]_vars

C27_Witness ==
    /\ iterations = 2
    /\ win_outcome = "ran"
    /\ win_pc = "pace"
    /\ window_before = 0
    /\ window_start_abs_sec = StepTicks
    /\ win_sw = WindowSamples + StepSamples
    /\ win_audio.first > win_sw - win_audio.len

\* C25: whatever start() and stop() calls are made on the LiveTranscriber,
\* at most one audio writer thread and at most one transcriber thread are
\* running at any time.
C25_OneThreadOfEachKind ==
    /\ Cardinality({g \in Gens : WriterAlive(g)}) <= 1
    /\ Cardinality({g \in Gens : LoopAlive(g)}) <= 1

---------------------------------------------------------------------------
\* The filters of the dedup (C28-C30)

\* the words of the latest iteration's emissions, as a set
EmittedWords ==
    LET ws == WordsOfEmissions(new_emissions)
    IN  {ws[k] : k \in 1..Len(ws)}

\* C28: a word of a segment that carries word offsets is kept as new if
\* and only if its session-relative end time (window start plus relative
\* end) is more than 20 ms after the last_emitted_time in force when its
\* segment is reached, advanced by the earlier segments of the same call;
\* a kept word is emitted once, with its session-relative start and end.
C28_WordFilter ==
    iterations >= 1 =>
        \A i \in 1..Len(segments) : \A j \in 1..Len(segments[i].words) :
            LET w == segments[i].words[j]
                kept == [text |-> w.word,
                         start |-> window_start_abs_sec + w.start,
                         end |-> window_start_abs_sec + w.end]
            IN  /\ kept \in EmittedWords <=>
                       window_start_abs_sec + w.end > LastAtSegment(i) + Eps
                /\ EmittedCount(w.word) = IF kept \in EmittedWords THEN 1 ELSE 0

C28_Witness ==
    /\ ConsecutiveWindows
    /\ last_before > 0
    /\ Len(segments) = 2
    /\ Len(segments[2].words) = 2
    /\ LastAtSegment(2) > last_before
    /\ LET w == segments[2].words[1]
       IN  /\ window_start_abs_sec + w.end > last_before + Eps
           /\ window_start_abs_sec + w.end = LastAtSegment(2) + Eps
           /\ EmittedCount(w.word) = 0
    /\ LET w == segments[2].words[2]
       IN  /\ window_start_abs_sec + w.end = LastAtSegment(2) + Eps + 1
           /\ EmittedCount(w.word) = 1

\* C29: a segment without word offsets is discarded if and only if its
\* session-relative end time is at most 20 ms after last_emitted_time;
\* otherwise it is emitted as one record whose single entry spans the
\* segment's start and end, and last_emitted_time becomes the larger of
\* its previous value and the segment's end.
C29_SegmentFallback ==
    iterations >= 1 =>
        \A i \in 1..Len(segments) : segments[i].words = <<>> =>
            LET seg_start == window_start_abs_sec + Max(0, segments[i].start)
                seg_end == window_start_abs_sec + Max(0, segments[i].end)
                entry == [text |-> segments[i].text, start |-> seg_start,
                          end |-> seg_end]
                records == {r \in 1..Len(new_emissions) :
                               new_emissions[r].words = <<entry>>}
                after == IF i = Len(segments) THEN last_emitted_time
                         ELSE LastAtSegment(i + 1)
            IN  IF seg_end <= LastAtSegment(i) + Eps
                THEN /\ EmittedCount(segments[i].text) = 0
                     /\ after = LastAtSegment(i)
                ELSE /\ Cardinality(records) = 1
                     /\ \A r \in records :
                            /\ new_emissions[r].start = seg_start
                            /\ new_emissions[r].end = seg_end
                     /\ after = Max(LastAtSegment(i), seg_end)

C29_Witness ==
    /\ iterations = 2
    /\ last_before > 0
    /\ Len(segments) = 2
    /\ segments[1].words = <<>>
    /\ segments[2].words = <<>>
    /\ window_start_abs_sec + segments[1].end = last_before + Eps
    /\ window_start_abs_sec + segments[2].end = last_before + Eps + 1
    /\ Len(new_emissions) = 1
    /\ new_emissions[1].words[1].text = segments[2].text
    /\ last_emitted_time = last_before + Eps + 1

\* the segments of the latest result that offer something new: a word, or
\* the segment itself, ending more than the tolerance after the
\* last_emitted_time in force when the segment is reached
SegmentsWithNew ==
    {i \in 1..Len(segments) :
        \E u \in UnitsOf(i) : u.end > LastAtSegment(i) + Eps}

\* C30: no empty record is emitted: every record written has at least one
\* new word; a segment all of whose words end at or before the cutoff
\* yields no record and leaves last_emitted_time as it was; and a call
\* with nothing new does not call the sinks at all.
C30_NoEmptyRecord ==
    /\ [](\A r \in 1..Len(jsonl) : Len(jsonl[r].words) >= 1)
    /\ [](iterations >= 1 =>
             /\ Len(new_emissions) = Cardinality(SegmentsWithNew)
             /\ \A i \in (1..Len(segments)) \ SegmentsWithNew :
                    \A u \in UnitsOf(i) : EmittedCount(u.text) = 0
             /\ (Len(segments) >= 1 /\ Len(segments) \notin SegmentsWithNew)
                    => last_emitted_time = LastAtSegment(Len(segments))
             /\ SegmentsWithNew = {} => last_emitted_time = last_before)
    /\ [][iterations' # iterations =>
              IF new_emissions' = <<>>
              THEN emit_calls' = emit_calls /\ jsonl' = jsonl
              ELSE emit_calls' = emit_calls + 1]_vars

C30_Witness ==
    /\ iterations = 2
    /\ last_before > 0
    /\ Len(segments) = 2
    /\ Len(segments[1].words) = 2
    /\ SegmentsWithNew = {1}
    /\ segments[2].words # <<>>
    /\ Len(new_emissions) = 1
    /\ Len(new_emissions[1].words) = 1
    /\ emit_calls = 2
    /\ Len(jsonl) = 2

\* the largest of the times in the non-empty set ts
MaxOf(ts) == CHOOSE m \in ts : \A t \in ts : m >= t

\* the end times of the words of the first r records of the latest
\* iteration
EndsUpTo(r) ==
    UNION {{new_emissions[q].words[j].end :
               j \in 1..Len(new_emissions[q].words)} : q \in 1..r}

\* C31: the record emitted for a segment with new words starts at the first
\* new word's start and ends at the last new word's end, and after the
\* segment last_emitted_time is the larger of its previous value and the
\* latest end time among the new words.
C31_RecordSpanAndCutoff ==
    iterations >= 1 =>
        /\ \A r \in 1..Len(new_emissions) :
               LET e == new_emissions[r]
               IN  /\ e.start = e.words[1].start
                   /\ e.end = e.words[Len(e.words)].end
                   /\ r < Len(new_emissions) =>
                          LastAtSegment(SegmentOf(new_emissions[r + 1])) =
                              MaxOf({last_before} \cup EndsUpTo(r))
        /\ last_emitted_time =
               MaxOf({last_before} \cup EndsUpTo(Len(new_emissions)))

C31_Witness ==
    /\ iterations = 2
    /\ last_before > 0
    /\ Len(new_emissions) = 1
    /\ Len(new_emissions[1].words) = 2
    /\ new_emissions[1].words[1].end > new_emissions[1].words[2].end
    /\ new_emissions[1].start = new_emissions[1].words[1].start
    /\ new_emissions[1].end < last_emitted_time
    /\ last_emitted_time = new_emissions[1].words[1].end

---------------------------------------------------------------------------
\* The audio writer's two destinations (C32)

\* the samples appended to the ring buffer so far, in the order of their
\* blocks
RingAppended == SubSeq(Flatten(dequeued), 1, total)

\* C32: the audio writer applies every block it dequeues to both
\* destinations in dequeue order: each dequeued block is appended to the
\* ring buffer and then to the audio file, so that, no write failing, the
\* audio file is the concatenation of exactly the blocks appended to the
\* ring buffer, in the same order (the block in hand between the two
\* writes excepted).
C32_FileIsRingAppends ==
    /\ total = Len(Flatten(dequeued)) -
                   (IF writer_pc = "append" THEN Len(writer_data) ELSE 0)
    /\ GetLast(RingCapacity) =
           SubSeq(RingAppended, total - size + 1, total)
    /\ IF writer_pc = "wav"
       THEN wav_file \o writer_data = RingAppended
       ELSE wav_file = RingAppended

C32_Witness ==
    /\ produced > Len(accepted)
    /\ Len(dequeued) > QueueMaxsize
    /\ writer_pc = "get"
    /\ wav_file = Flatten(dequeued)
    /\ total = Len(wav_file)
    /\ wav_file[total] = produced * BlockFrames
    /\ total < produced * BlockFrames

---------------------------------------------------------------------------
\* The capture callback beside the other threads (C33)

---------------------------------------------------------------------------
\* The pacing of the transcriber loop (C34)

\* C34: the starts of two consecutive iterations of the transcriber loop
\* are at least step seconds apart, and after a call that took longer than
\* step the loop fires at most one iteration for the beats it missed, never
\* a burst: the iterations started so far are no more than one per step of
\* the time elapsed since the first, plus the first.
C34_PacedNoBurst ==
    /\ \A i \in 1..(Len(pace_starts) - 1) :
           pace_starts[i + 1] - pace_starts[i] >= StepTicks
    /\ pace_starts # <<>> =>
           Len(pace_starts) <= (clock - pace_starts[1]) \div StepTicks + 1

C34_Witness ==
    /\ Len(pace_starts) = 3
    /\ pace_starts[2] - pace_starts[1] > 2 * StepTicks
    /\ pace_starts[3] - pace_starts[2] = StepTicks
    /\ pace_pc = "body"

---------------------------------------------------------------------------
\* What get_last leaves alone (C35)

\* C35: get_last is a pure read that returns a copy: none of its steps
\* changes the ring buffer's contents, write cursor or size, and the window
\* it returned is not altered by any append performed afterwards.
C35_GetLastPureCopy ==
    [][/\ get_pc' # get_pc =>
              /\ buffer' = buffer
              /\ write_pos' = write_pos
              /\ size' = size
       /\ (get_pc = "done" /\ get_pc' = "done") =>
              get_result' = get_result]_vars

C35_Witness ==
    /\ get_pc = "done"
    /\ Len(get_result) = RingCapacity
    /\ app_pc = "idle"
    /\ \A i \in 1..RingCapacity :
           get_result[i] # GetCopy(buffer, get_start, get_n)[i]

---------------------------------------------------------------------------
\* Session time and capture time (C36)

\* the samples the audio device had delivered to the capture callback before
\* the sample at session index `first` of the ring buffer's appends
DeliveredBefore(first) ==
    (accepted[first \div BlockSamples + 1] - 1) * BlockSamples +
        (first % BlockSamples)

\* C36: for every window, window_start_abs_sec is the number of samples the
\* audio device delivered to the capture callback before the window's first
\* sample, over the sample rate, also when blocks were dropped on a full
\* queue.  Stated for the windows read while the writer was not ahead of
\* the snapshot of _samples_written.
C36_TimesAreCaptureTime ==
    (/\ win_pc = "pace"
     /\ win_outcome = "ran"
     /\ win_audio.first + win_audio.len = win_sw) =>
        window_start_abs_sec =
            DeliveredBefore(win_audio.first) \div SamplesPerTick

---------------------------------------------------------------------------
\* The blocks on the queue at the end of a session (C37, C38)

\* C37: every block accepted onto the hand-off queue is eventually appended
\* to the ring buffer and to the audio file, the blocks still queued at the
\* stop signal included: once stop() has returned with the stream closed
\* and every writer thread gone through the end of its loop, no accepted
\* block is left on the queue.
C37_AcceptedBlocksAreAppended ==
    (/\ caller_pc = "idle"
     /\ returned = "stop"
     /\ streams_active = {}
     /\ \A g \in Gens : w_pc[g] \in {"unstarted", "exited"}) =>
        audio_q = <<>>

\* C38: when start() fails because the audio device cannot be opened, no
\* background thread is left running and no file is left open: after the
\* failed start() the writer thread it created is not alive and its sound
\* file is not open.
C38_FailedStartLeavesNothing ==
    (caller_pc = "idle" /\ returned = "start_raised") =>
        /\ ~WriterAlive(gen)
        /\ ~LoopAlive(gen)
        /\ wav_handle[gen] # "open"

---------------------------------------------------------------------------
\* The samples counter and the ring buffer (C39)

\* C39: in every reachable state samples_written is at most the number of
\* samples appended to the ring buffer since construction, lags it by at
\* most one block, and equals it whenever a writer thread is waiting on the
\* hand-off queue; and the ring buffer's size is min(capacity, samples
\* appended).
C39_CountTracksRing ==
    /\ samples_written <= total
    /\ total - samples_written <= BlockFrames
    /\ (\E g \in Gens : w_pc[g] = "get") => samples_written = total
    /\ size = Min(RingCapacity, total)

---------------------------------------------------------------------------
\* The cutoff and the transcript log (C40)

\* the end times of the words of the records in the transcript log
LoggedEnds ==
    UNION {{jsonl[i].words[j].end : j \in 1..Len(jsonl[i].words)} :
              i \in 1..Len(jsonl)}

\* C40: time is marked emitted only for content delivered to the log:
\* whenever no transcriber thread is inside an iteration, last_emitted_time
\* is the latest end time over the words written to the transcript log so
\* far (0 while the log is empty), also when a write to a sink failed.
\* Stated for the executions the claim names: the latest call of _emit was
\* reached and its write to the log failed.
C40_CutoffIsLoggedTime ==
    (/\ \A g \in Gens : t_pc[g] # "engine"
     /\ batch.log_failed) =>
        last_emitted_time =
            (IF jsonl = <<>> THEN 0 ELSE MaxOf(LoggedEnds))

==========================================================================
